---- MODULE Spec2Model ----
(***************************************************************************)
(* A model of the zeroconf mDNS/DNS-SD library: the responder (Server) of  *)
(* server.go, the resolver (client) that follows it in the same file, and  *)
(* the helpers of utils.go.                                                *)
(*                                                                         *)
(* These state machines share this module:                                  *)
(*   SpecWire      the responder's handlers taken one call at a time, with *)
(*                 the full contents of every message they send;           *)
(*   Spec          the responder's tasks (recv4, recv6, probe, Shutdown    *)
(*                 callers) interleaved statement by statement;            *)
(*   SpecApi       Spec with a task that calls SetText;                    *)
(*   SpecConstruct one call of Register, RegisterProxy or Browse up to     *)
(*                 what its constructor leaves behind;                     *)
(*   SpecResolver  the resolver's main loop over inbound datagrams;        *)
(*   SpecClient    the resolver's tasks (run, mainloop, recv, the caller   *)
(*                 and the subscriber) interleaved;                        *)
(*   SpecSenders   the responder's text and IPv4 socket under the tasks    *)
(*                 that store the text, compose messages and send them;    *)
(*   SpecChunks    chunks of utils.go applied to a string.                 *)
(* Strings that the code takes apart (names) are sequences of one-         *)
(* character strings, so that suffix tests and trimming are computed.      *)
(***************************************************************************)
EXTENDS Integers, Sequences, FiniteSets, TLC

VARIABLES
    \* ---- responder, message level (SpecWire) ----
    service,        \* Server.service: the published ServiceEntry
    ttl,            \* Server.ttl
    inbound,        \* the datagram handed to handleQuery by the last receive
    sent,           \* the packets written by the handler that ran last
    \* ---- responder, task level (Spec) ----
    shouldShutdown, \* Server.shouldShutdown: number of close() calls on it
    lockHolder,     \* Server.shutdownLock: the caller holding it, or 0
    isShutdown,     \* Server.isShutdown
    refCount,       \* Server.refCount (sync.WaitGroup counter)
    conn,           \* conn[4], conn[6]: "nil", "open" or "closed"
    closeCalls,     \* conn Close() calls per family
    rpc,            \* rpc[4], rpc[6]: position of recv4 / recv6
    ppc,            \* position of the probe task
    pi,             \* loop counter i of the probe task
    timeout,        \* the probe task's local timeout, in ms
    probeLog,       \* what the probe task has done so far, in order
    cpc,            \* cpc[c]: position of Shutdown caller c
    goodbyes,       \* number of goodbye messages multicast
    lateSends,      \* packets written by a worker after a Shutdown returned
    textCalls,      \* the SetText calls made so far, in order
    spc,            \* spc[t]: where task t stands in storing the text, composing
                    \* and sending (SpecSenders)
    sockIf,         \* sockIf[f]: the multicast interface set on socket f
    args,           \* the arguments of the constructor call, and the host's answers
    result,         \* what the constructor call returned: "none" before it returns
    \* ---- resolver (SpecResolver) ----
    params,         \* lookupParams of the running Browse / Lookup
    now,            \* the clock, in TimeUnit steps
    mpc,            \* position of client.mainloop
    entries,        \* mainloop's entries map of the current datagram
    order,          \* keys of entries the delivery loop has still to visit
    sentEntries,    \* mainloop's sentEntries map
    lastMsg,        \* the datagram mainloop took from msgCh last, and when
    prevMsg,        \* the datagram before that one
    delivered,      \* what was sent on params.Entries for lastMsg, in order
    prevDelivered,  \* what was sent on params.Entries for prevMsg
    \* ---- resolver, task level (SpecClient) ----
    cconn,          \* client sockets cconn[4], cconn[6]: "nil", "open" or "closed"
    ctx,            \* run's context: "live", "cancelled" (by the caller) or
                    \* "stopped" (by run's own cancel())
    runpc,          \* position of client.run
    runErr,         \* what client.run returned
    sink,           \* params.Entries: "open" or "closed"
    crpc,           \* crpc[4], crpc[6]: position of client.recv
    msgCh,          \* mainloop's msgCh: the datagrams queued in it
    arrivals,       \* datagrams the sockets have received so far
    lateDeliveries, \* entries sent on params.Entries after client.run returned
    handed          \* entries the subscriber has received from params.Entries

wireVars == <<service, ttl, inbound, sent>>
taskVars == <<shouldShutdown, lockHolder, isShutdown, refCount, conn, closeCalls,
              rpc, ppc, pi, timeout, probeLog, cpc, goodbyes, lateSends, textCalls, spc, sockIf,
              args, result>>
clientVars == <<cconn, ctx, runpc, runErr, sink, crpc, msgCh, arrivals, lateDeliveries,
                handed>>
resolverVars == <<params, now, mpc, entries, order, sentEntries, lastMsg, prevMsg,
                  delivered, prevDelivered, clientVars>>
vars == <<wireVars, taskVars, resolverVars>>

----------------------------------------------------------------------------
(* Bounds of the model.                                                    *)

\* Interfaces the engine was given (Server.ifaces); interface indexes 1..MaxIfaces.
MaxIfaces == 2
\* Questions in one inbound query.
MaxQuestions == 2
\* Tasks that call Shutdown, each once.
NumCallers == 2
\* The resolver's clock runs from 0 to MaxClockSteps * ClockStep seconds.
MaxClockSteps == 2
\* Datagrams the resolver's sockets receive during one Browse / Lookup.
MaxArrivals == 2

----------------------------------------------------------------------------
(* Strings as sequences of characters.                                     *)

Dot == <<".">>
Empty == <<>>

HasSuffix(s, suffix) ==
    /\ Len(suffix) <= Len(s)
    /\ SubSeq(s, Len(s) - Len(suffix) + 1, Len(s)) = suffix

HasPrefixAt(s, i, sub) ==
    /\ i + Len(sub) - 1 <= Len(s)
    /\ SubSeq(s, i, i + Len(sub) - 1) = sub

\* strings.Trim(s, "."): every leading and every trailing dot removed.
trimDot(s) ==
    LET nonDots == {i \in 1..Len(s) : s[i] # "."}
        Min(S) == CHOOSE x \in S : \A y \in S : x <= y
        Max(S) == CHOOSE x \in S : \A y \in S : x >= y
    IN  IF nonDots = {} THEN Empty
        ELSE SubSeq(s, Min(nonDots), Max(nonDots))

\* strings.Split(s, sep) for a one-character sep.
RECURSIVE Split(_, _)
Split(s, sep) ==
    LET hits == {i \in 1..Len(s) : s[i] = sep}
    IN  IF hits = {} THEN <<s>>
        ELSE LET i == CHOOSE x \in hits : \A y \in hits : x <= y
             IN  <<SubSeq(s, 1, i - 1)>> \o Split(SubSeq(s, i + 1, Len(s)), sep)

parseSubtypes(svc) ==
    LET subtypes == Split(svc, ",")
    IN  [Service |-> subtypes[1], Subtypes |-> Tail(subtypes)]

\* strings.Replace(s, old, "", n): the first n (n < 0: all) non-overlapping
\* occurrences of old removed. old is never empty here.
RECURSIVE Remove(_, _, _)
Remove(s, old, n) ==
    LET hits == {i \in 1..Len(s) : HasPrefixAt(s, i, old)}
    IN  IF n = 0 \/ hits = {} \/ old = Empty THEN s
        ELSE LET i == CHOOSE x \in hits : \A y \in hits : x <= y
             IN  SubSeq(s, 1, i - 1)
                   \o Remove(SubSeq(s, i + Len(old), Len(s)), old, n - 1)

----------------------------------------------------------------------------
(* Names of the model's world.                                             *)

InstI == <<"I">>
InstJ == <<"J">>
SvcS == <<"_", "s">>
SvcT == <<"_", "t">>
SubP == <<"p">>
DomL == <<"l">>
HostH == <<"h", ".", "l", ".">>
HostG == <<"g", ".", "l", ".">>
MetaLabel ==
    <<"_", "s", "e", "r", "v", "i", "c", "e", "s", ".",
      "_", "d", "n", "s", "-", "s", "d", ".", "_", "u", "d", "p", ".">>

\* ServiceEntry / lookupParams name builders.
ServiceName(e) == trimDot(e.Service) \o Dot \o trimDot(e.Domain) \o Dot

ServiceInstanceName(e) ==
    IF e.Instance = Empty THEN Empty
    ELSE e.Instance \o Dot \o ServiceName(e)

ServiceTypeName(e) == MetaLabel \o trimDot(e.Domain) \o Dot

\* The TXT strings put on the wire: an empty text is one empty string.
TxtRecords(e) == IF e.Text = <<>> THEN <<"">> ELSE e.Text

newServiceEntry(instance, svc, domain) ==
    [Instance |-> instance,
     Service  |-> parseSubtypes(svc).Service,
     Subtypes |-> parseSubtypes(svc).Subtypes,
     Domain   |-> domain,
     HostName |-> Empty,
     Port     |-> 0,
     Text     |-> <<>>,
     AddrIPv4 |-> <<>>,
     AddrIPv6 |-> <<>>,
     Expiry   |-> 0,
     CacheFlush |-> FALSE]

----------------------------------------------------------------------------
(* DNS messages and resource records (the fields the code reads or sets).  *)

ClassINET == 1
qClassCacheFlush == 32768
defaultTTL == 3200
multicastRepetitions == 2

RR(type, name, class, t) ==
    [Rrtype |-> type, Name |-> name, Class |-> class, Ttl |-> t,
     Ptr |-> Empty, Target |-> Empty, Port |-> 0, Txt |-> <<>>, Addr |-> <<>>]

PTR(name, class, t, ptr) == [RR("PTR", name, class, t) EXCEPT !.Ptr = ptr]
SRV(name, class, t, port, target) ==
    [RR("SRV", name, class, t) EXCEPT !.Port = port, !.Target = target]
TXT(name, class, t, txt) == [RR("TXT", name, class, t) EXCEPT !.Txt = txt]
AddrRR(type, name, class, t, ip) == [RR(type, name, class, t) EXCEPT !.Addr = ip]

Question(name, qclass) == [Name |-> name, Qclass |-> qclass]

\* new(dns.Msg): every field zero.
NewMsg ==
    [Response |-> FALSE, Authoritative |-> FALSE, RecursionDesired |-> FALSE,
     Question |-> <<>>, Answer |-> <<>>, Ns |-> <<>>, Extra |-> <<>>]

\* dns.Msg.SetReply(query): a response that copies the query's RD bit and
\* its first question.
SetReply(query) ==
    [NewMsg EXCEPT !.Response = TRUE,
                   !.RecursionDesired = query.RecursionDesired,
                   !.Question = IF Len(query.Question) > 0
                                THEN <<query.Question[1]>> ELSE <<>>]

\* Bit 15 of a 16-bit class.
TopBit(class) == (class \div qClassCacheFlush) % 2 = 1

----------------------------------------------------------------------------
(* The host's interfaces and addresses (the operating system's answers).   *)

\* Server.ifaces / client.ifaces: the interfaces the engine was given.
Ifaces == [i \in 1..MaxIfaces |-> i]

\* net.Interface.Addrs() of interface i: a loopback address, an IPv4
\* address and a link-local IPv6 address everywhere, and a global IPv6
\* address on the even interfaces.
IfaceAddrs(i) ==
    <<[ip |-> <<"127", i>>, v4 |-> TRUE, kind |-> "loopback"],
      [ip |-> <<"10", i>>, v4 |-> TRUE, kind |-> "global"],
      [ip |-> <<"fe80", i>>, v4 |-> FALSE, kind |-> "linklocal"]>>
    \o (IF i % 2 = 0
        THEN <<[ip |-> <<"2001", i>>, v4 |-> FALSE, kind |-> "global"]>>
        ELSE <<>>)

Ips(sel) == [k \in 1..Len(sel) |-> sel[k].ip]

addrsForInterface(i) ==
    LET addrs == IfaceAddrs(i)
        IsV4(a) == a.kind # "loopback" /\ a.v4
        IsV6(a) == a.kind = "global" /\ ~a.v4
        IsV6Local(a) == a.kind = "linklocal" /\ ~a.v4
        v6 == Ips(SelectSeq(addrs, IsV6))
    IN  [v4 |-> Ips(SelectSeq(addrs, IsV4)),
         v6 |-> IF Len(v6) = 0 THEN Ips(SelectSeq(addrs, IsV6Local)) ELSE v6]

\* net.InterfaceByIndex(ifIndex) finds an interface for the indexes the host has.
InterfaceByIndex(ifIndex) == ifIndex \in 1..MaxIfaces

----------------------------------------------------------------------------
(* The responder: composing messages.  s is the Server:                    *)
(* [service, ttl, conn].                                                   *)

\* appendAddrs with the cache-flush bit set whatever flushCache says.
appendAddrsAlwaysFlush(s, list, t, ifIndex, flushCache) ==
    LET given == Len(s.service.AddrIPv4) # 0 \/ Len(s.service.AddrIPv6) # 0
        found == ~given /\ InterfaceByIndex(ifIndex)
        v4 == IF found THEN addrsForInterface(ifIndex).v4 ELSE s.service.AddrIPv4
        v6 == IF found THEN addrsForInterface(ifIndex).v6 ELSE s.service.AddrIPv6
        t2 == IF t > 0 THEN 120 ELSE t
    IN  list
        \o [k \in 1..Len(v4) |->
              AddrRR("A", s.service.HostName, ClassINET + qClassCacheFlush, t2, v4[k])]
        \o [k \in 1..Len(v6) |->
              AddrRR("AAAA", s.service.HostName, ClassINET + qClassCacheFlush, t2, v6[k])]

\* appendAddrs raising the TTL of address records to 120 also when it is 0.
appendAddrsAlways120(s, list, t, ifIndex, flushCache) ==
    LET given == Len(s.service.AddrIPv4) # 0 \/ Len(s.service.AddrIPv6) # 0
        found == ~given /\ InterfaceByIndex(ifIndex)
        v4 == IF found THEN addrsForInterface(ifIndex).v4 ELSE s.service.AddrIPv4
        v6 == IF found THEN addrsForInterface(ifIndex).v6 ELSE s.service.AddrIPv6
        cacheFlushBit == IF flushCache THEN qClassCacheFlush ELSE 0
    IN  list
        \o [k \in 1..Len(v4) |->
              AddrRR("A", s.service.HostName, ClassINET + cacheFlushBit, 120, v4[k])]
        \o [k \in 1..Len(v6) |->
              AddrRR("AAAA", s.service.HostName, ClassINET + cacheFlushBit, 120, v6[k])]

appendAddrs(s, list, t, ifIndex, flushCache) ==
    LET given == Len(s.service.AddrIPv4) # 0 \/ Len(s.service.AddrIPv6) # 0
        found == ~given /\ InterfaceByIndex(ifIndex)
        v4 == IF found THEN addrsForInterface(ifIndex).v4 ELSE s.service.AddrIPv4
        v6 == IF found THEN addrsForInterface(ifIndex).v6 ELSE s.service.AddrIPv6
        t2 == IF t > 0 THEN 120 ELSE t
        cacheFlushBit == IF flushCache THEN qClassCacheFlush ELSE 0
    IN  list
        \o [k \in 1..Len(v4) |->
              AddrRR("A", s.service.HostName, ClassINET + cacheFlushBit, t2, v4[k])]
        \o [k \in 1..Len(v6) |->
              AddrRR("AAAA", s.service.HostName, ClassINET + cacheFlushBit, t2, v6[k])]

composeBrowsingAnswers(s, resp, ifIndex) ==
    LET ptr == PTR(ServiceName(s.service), ClassINET, s.ttl,
                   ServiceInstanceName(s.service))
        txt == TXT(ServiceInstanceName(s.service), ClassINET, s.ttl,
                   TxtRecords(s.service))
        srv == SRV(ServiceInstanceName(s.service), ClassINET, s.ttl,
                   s.service.Port % 65536, s.service.HostName)
    IN  [resp EXCEPT
           !.Answer = resp.Answer \o <<ptr>>,
           !.Extra = appendAddrs(s, resp.Extra \o <<srv, txt>>, s.ttl, ifIndex, FALSE)]

composeLookupAnswers(s, resp, t, ifIndex, flushCache) ==
    LET ptr == PTR(ServiceName(s.service), ClassINET, t,
                   ServiceInstanceName(s.service))
        srv == SRV(ServiceInstanceName(s.service), ClassINET + qClassCacheFlush, t,
                   s.service.Port % 65536, s.service.HostName)
        txt == TXT(ServiceInstanceName(s.service), ClassINET + qClassCacheFlush, t,
                   TxtRecords(s.service))
        dnssd == PTR(ServiceTypeName(s.service), ClassINET, t,
                     ServiceName(s.service))
        subs == [k \in 1..Len(s.service.Subtypes) |->
                   PTR(s.service.Subtypes[k], ClassINET, t,
                       ServiceInstanceName(s.service))]
    IN  [resp EXCEPT
           !.Answer = appendAddrs(s, resp.Answer \o <<srv, txt, ptr, dnssd>> \o subs,
                                  t, ifIndex, flushCache)]

serviceTypeName(s, resp, t) ==
    [resp EXCEPT !.Answer = resp.Answer \o
        <<PTR(ServiceTypeName(s.service), ClassINET, t, ServiceName(s.service))>>]

\* isKnownAnswer asking for the full TTL instead of half of it.
isKnownAnswerFullTtl(resp, query) ==
    /\ Len(resp.Answer) # 0
    /\ Len(query.Answer) # 0
    /\ resp.Answer[1].Rrtype = "PTR"
    /\ \E k \in 1..Len(query.Answer) :
          /\ query.Answer[k].Rrtype = resp.Answer[1].Rrtype
          /\ query.Answer[k].Ptr = resp.Answer[1].Ptr
          /\ query.Answer[k].Ttl >= resp.Answer[1].Ttl

\* RFC 6762 7.1, known-answer suppression: decided on the first record of
\* the response's Answer section alone.
isKnownAnswer(resp, query) ==
    /\ Len(resp.Answer) # 0
    /\ Len(query.Answer) # 0
    /\ resp.Answer[1].Rrtype = "PTR"
    /\ \E k \in 1..Len(query.Answer) :
          /\ query.Answer[k].Rrtype = resp.Answer[1].Rrtype
          /\ query.Answer[k].Ptr = resp.Answer[1].Ptr
          /\ query.Answer[k].Ttl >= resp.Answer[1].Ttl \div 2

\* The name handleQuestion compares a question with for a subtype.
SubtypeQuestionName(s, subtype) ==
    subtype \o <<".", "_", "s", "u", "b", ".">> \o ServiceName(s.service)

Suppress(resp, query) ==
    IF isKnownAnswer(resp, query) THEN [resp EXCEPT !.Answer = <<>>] ELSE resp

\* handleQuestion without its default case: subtype names are not matched.
handleQuestionNoSubtypes(s, q, resp, query, ifIndex) ==
    IF q.Name = ServiceTypeName(s.service)
      THEN Suppress(serviceTypeName(s, resp, s.ttl), query)
    ELSE IF q.Name = ServiceName(s.service)
      THEN Suppress(composeBrowsingAnswers(s, resp, ifIndex), query)
    ELSE IF q.Name = ServiceInstanceName(s.service)
      THEN composeLookupAnswers(s, resp, s.ttl, ifIndex, FALSE)
    ELSE resp

handleQuestion(s, q, resp, query, ifIndex) ==
    IF q.Name = ServiceTypeName(s.service)
      THEN Suppress(serviceTypeName(s, resp, s.ttl), query)
    ELSE IF q.Name = ServiceName(s.service)
      THEN Suppress(composeBrowsingAnswers(s, resp, ifIndex), query)
    ELSE IF q.Name = ServiceInstanceName(s.service)
      THEN composeLookupAnswers(s, resp, s.ttl, ifIndex, FALSE)
    ELSE IF \E k \in 1..Len(s.service.Subtypes) :
              q.Name = SubtypeQuestionName(s, s.service.Subtypes[k])
      THEN Suppress(composeBrowsingAnswers(s, resp, ifIndex), query)
    ELSE resp

----------------------------------------------------------------------------
(* The responder: sending.  A packet written on a socket is                *)
(* [kind, fam, ifIndex, to, qi, msg]: fam is the socket's family, ifIndex  *)
(* the outgoing interface asked for (0: none), qi the index of the         *)
(* question it answers (0: unsolicited).                                   *)

Group(fam) == [fam |-> fam, ip |-> <<"mdns-group", fam>>]

Packet(kind, fam, ifIndex, to, msg) ==
    [kind |-> kind, fam |-> fam, ifIndex |-> ifIndex, to |-> to, qi |-> 0, msg |-> msg]

Tag(packets, i) == [k \in 1..Len(packets) |-> [packets[k] EXCEPT !.qi = i]]

unicastResponse(s, resp, ifIndex, from) ==
    <<Packet("unicast", from.fam, ifIndex, from, resp)>>

\* One socket's share of multicastResponse.
MulticastOn(s, fam, msg, ifIndex) ==
    IF s.conn[fam] = "nil" THEN <<>>
    ELSE IF ifIndex # 0 THEN <<Packet("multicast", fam, ifIndex, Group(fam), msg)>>
    ELSE [k \in 1..Len(Ifaces) |->
            Packet("multicast", fam, Ifaces[k], Group(fam), msg)]

multicastResponse(s, msg, ifIndex) ==
    MulticastOn(s, 4, msg, ifIndex) \o MulticastOn(s, 6, msg, ifIndex)

\* isUnicastQuestion testing the lowest bit of qclass.
isUnicastQuestionLowBit(q) == q.Qclass % 2 = 1

isUnicastQuestion(q) == TopBit(q.Qclass)

\* The response handleQuery prepares for one question.
NewReply(query) ==
    [SetReply(query) EXCEPT !.RecursionDesired = FALSE,
                            !.Authoritative = TRUE,
                            !.Question = <<>>,
                            !.Answer = <<>>,
                            !.Extra = <<>>]

\* One iteration of handleQuery's loop: the packets sent for question i.
AnswerQuestion(s, query, i, ifIndex, from) ==
    LET q == query.Question[i]
        resp == handleQuestion(s, q, NewReply(query), query, ifIndex)
    IN  IF Len(resp.Answer) = 0 THEN <<>>
        ELSE IF isUnicastQuestion(q)
          THEN Tag(unicastResponse(s, resp, ifIndex, from), i)
        ELSE Tag(multicastResponse(s, resp, ifIndex), i)

RECURSIVE AnswerFrom(_, _, _, _, _)
AnswerFrom(s, query, i, ifIndex, from) ==
    IF i > Len(query.Question) THEN <<>>
    ELSE AnswerQuestion(s, query, i, ifIndex, from)
           \o AnswerFrom(s, query, i + 1, ifIndex, from)

\* handleQuery without the test of the Authority section.
handleQueryAnswersProbes(s, query, ifIndex, from) ==
    AnswerFrom(s, query, 1, ifIndex, from)

handleQuery(s, query, ifIndex, from) ==
    IF Len(query.Ns) > 0 THEN <<>>
    ELSE AnswerFrom(s, query, 1, ifIndex, from)

\* The probe query of probe(): a question for the instance name with the
\* proposed SRV and TXT in the Authority section.
ProbeQuery(s) ==
    [NewMsg EXCEPT
       !.Question = <<Question(ServiceInstanceName(s.service), ClassINET)>>,
       !.RecursionDesired = FALSE,
       !.Ns = <<SRV(ServiceInstanceName(s.service), ClassINET, s.ttl,
                    s.service.Port % 65536, s.service.HostName),
                TXT(ServiceInstanceName(s.service), ClassINET, s.ttl,
                    TxtRecords(s.service))>>]

\* The response an unsolicited sender starts from.
NewResponse == [NewMsg EXCEPT !.Response = TRUE]

\* probe(): the announcement for one interface.
Announcement(s, intf) == composeLookupAnswers(s, NewResponse, s.ttl, intf, TRUE)

announceText(s) == multicastResponse(s, composeBrowsingAnswers(s, NewResponse, 0), 0)

unregister(s) == multicastResponse(s, composeLookupAnswers(s, NewResponse, 0, 0, TRUE), 0)

----------------------------------------------------------------------------
(* SpecWire: the responder's handlers, one call at a time.                 *)

Server == [service |-> service, ttl |-> ttl, conn |-> conn]

Peer(fam) == [fam |-> fam, ip |-> <<"peer", fam>>]

\* The question names a peer may ask for.
QuestionNames(s) ==
    {ServiceTypeName(s.service), ServiceName(s.service),
     ServiceInstanceName(s.service), SubtypeQuestionName(s, SubP),
     ServiceName(newServiceEntry(Empty, SvcT, DomL))}

Questions(s) ==
    {Question(n, c) : n \in QuestionNames(s),
                      c \in {ClassINET, ClassINET + qClassCacheFlush}}

\* The questions of a query with several: every name as a multicast
\* question, and the browse name as a unicast question.
SeveralQuestions(s) ==
    {Question(n, ClassINET) : n \in QuestionNames(s)}
        \cup {Question(ServiceName(s.service), ClassINET + qClassCacheFlush)}

QuestionSeqs(s) == UNION {[1..n -> SeveralQuestions(s)] : n \in 0..MaxQuestions}

\* The known answers a query may carry: records the querier already holds.
KnownAnswers(s) ==
    LET sn == ServiceName(s.service)
        inn == ServiceInstanceName(s.service)
        half == s.ttl \div 2
    IN  {<<>>,
         <<PTR(sn, ClassINET, half, inn)>>,
         <<PTR(sn, ClassINET, IF half > 0 THEN half - 1 ELSE 0, inn)>>,
         <<PTR(ServiceTypeName(s.service), ClassINET, s.ttl, sn)>>,
         <<SRV(inn, ClassINET, s.ttl, 1, HostG), PTR(sn, ClassINET, s.ttl, inn)>>,
         <<PTR(sn, ClassINET, s.ttl, InstJ \o Dot \o sn)>>,
         <<PTR(ServiceName(newServiceEntry(Empty, SvcT, DomL)), ClassINET, s.ttl, inn)>>}

\* A peer's probe carries its proposed records in the Authority section.
Authorities(s) ==
    {<<>>, <<SRV(ServiceInstanceName(s.service), ClassINET, s.ttl, 1, HostG)>>}

Query(qs, ka, rd, ns) ==
    [NewMsg EXCEPT !.Question = qs, !.Answer = ka,
                   !.RecursionDesired = rd, !.Ns = ns]

\* The inbound queries: every single question with every known-answer list,
\* with RD set, and as a peer's probe; and every question list as a plain
\* query and with the browse PTR as known answer.
Queries(s) ==
    {Query(<<q>>, ka, FALSE, <<>>) : q \in Questions(s), ka \in KnownAnswers(s)}
    \cup {Query(<<q>>, <<>>, TRUE, <<>>) : q \in Questions(s)}
    \cup {Query(<<q>>, <<>>, FALSE, ns) : q \in Questions(s), ns \in Authorities(s)}
    \cup {Query(qs, ka, FALSE, <<>>) :
             qs \in QuestionSeqs(s),
             ka \in {<<>>, <<PTR(ServiceName(s.service), ClassINET, s.ttl,
                                 ServiceInstanceName(s.service))>>}}

Joined == {f \in {4, 6} : conn[f] # "nil"}

\* recv4 / recv6 read a datagram and parsePacket hands it to handleQuery.
WireQuery ==
    /\ sent = <<>> /\ inbound = <<>>
    /\ \E query \in Queries(Server), ifIndex \in 0..MaxIfaces, fam \in Joined :
          /\ inbound' = <<[query |-> query, ifIndex |-> ifIndex, from |-> Peer(fam)]>>
          /\ sent' = handleQuery(Server, query, ifIndex, Peer(fam))
    /\ UNCHANGED <<service, ttl, taskVars, resolverVars>>

\* probe(): one probe query, multicast on every interface.
WireProbe ==
    /\ sent = <<>> /\ inbound = <<>>
    /\ sent' = multicastResponse(Server, ProbeQuery(Server), 0)
    /\ Len(sent') > 0
    /\ UNCHANGED <<service, ttl, inbound, taskVars, resolverVars>>

\* probe(): one round of announcements, one per interface.
RECURSIVE AnnounceFrom(_, _)
AnnounceFrom(s, k) ==
    IF k > Len(Ifaces) THEN <<>>
    ELSE multicastResponse(s, Announcement(s, Ifaces[k]), Ifaces[k])
           \o AnnounceFrom(s, k + 1)

WireAnnounce ==
    /\ sent = <<>> /\ inbound = <<>>
    /\ sent' = AnnounceFrom(Server, 1)
    /\ UNCHANGED <<service, ttl, inbound, taskVars, resolverVars>>

Texts == {<<>>, <<"a=1">>}

SetText(text) ==
    /\ sent = <<>> /\ inbound = <<>>
    /\ service' = [service EXCEPT !.Text = text]
    /\ sent' = announceText([Server EXCEPT !.service = service'])
    /\ UNCHANGED <<ttl, inbound, taskVars, resolverVars>>

WireSetText == \E text \in Texts : SetText(text)

\* Shutdown(): the goodbye.
WireUnregister ==
    /\ sent = <<>> /\ inbound = <<>>
    /\ sent' = unregister(Server)
    /\ UNCHANGED <<service, ttl, inbound, taskVars, resolverVars>>

\* The network carries the packets away; the next handler call starts.
WireDrain ==
    /\ sent # <<>> \/ inbound # <<>>
    /\ sent' = <<>> /\ inbound' = <<>>
    /\ UNCHANGED <<service, ttl, taskVars, resolverVars>>

WireNext ==
    \/ WireQuery
    \/ WireProbe
    \/ WireAnnounce
    \/ WireSetText
    \/ WireUnregister
    \/ WireDrain

\* The ServiceEntry a successful Register / RegisterProxy leaves behind.
Registered(svcArg, text, v4, v6) ==
    [newServiceEntry(InstI, svcArg, DomL) EXCEPT
        !.HostName = HostH, !.Port = 8080, !.Text = text,
        !.AddrIPv4 = v4, !.AddrIPv6 = v6]

ServiceArgs == {SvcS, SvcS \o <<",">> \o SubP}

GivenAddrs == {[v4 |-> <<>>, v6 |-> <<>>],
               [v4 |-> <<<<"192", 0>>>>, v6 |-> <<<<"2001", 0>>>>]}

\* newServer: each family joined or not, at least one joined.
ConnChoices ==
    {c \in [{4, 6} -> {"nil", "open"}] : c[4] = "open" \/ c[6] = "open"}

BothOpen == [f \in {4, 6} |-> "open"]

InitWorkersIdle ==
    /\ shouldShutdown = 0 /\ lockHolder = 0 /\ isShutdown = FALSE
    /\ refCount = 0
    /\ closeCalls = [f \in {4, 6} |-> 0]
    /\ rpc = [f \in {4, 6} |-> "none"]
    /\ ppc = "none" /\ pi = 0 /\ timeout = 0 /\ probeLog = <<>>
    /\ cpc = [c \in 1..NumCallers |-> "idle"]
    /\ goodbyes = 0 /\ lateSends = 0 /\ textCalls = <<>>
    /\ spc = <<>> /\ sockIf = <<>>

InitTasksIdle == InitWorkersIdle /\ args = <<>> /\ result = "ok"

InitClientIdle ==
    /\ cconn = [f \in {4, 6} |-> "nil"]
    /\ ctx = "live" /\ runpc = "none" /\ runErr = "none"
    /\ sink = "open"
    /\ crpc = [f \in {4, 6} |-> "none"]
    /\ msgCh = <<>> /\ arrivals = 0 /\ lateDeliveries = 0 /\ handed = 0

InitResolverIdle ==
    /\ InitClientIdle
    /\ params = <<>>
    /\ now = 0 /\ mpc = "none"
    /\ entries = <<>> /\ order = {} /\ sentEntries = <<>>
    /\ lastMsg = <<>> /\ prevMsg = <<>>
    /\ delivered = <<>> /\ prevDelivered = <<>>

\* Every service and TTL with both families joined, and the one-family
\* servers of the service registered with a subtype.
InitWire ==
    /\ \E svcArg \in ServiceArgs, a \in GivenAddrs, t \in {defaultTTL, 5},
          c \in ConnChoices :
          /\ c = BothOpen
                \/ (svcArg \notin {SvcS} /\ Len(a.v4) = 0 /\ t = defaultTTL)
          /\ service = Registered(svcArg, <<"a=1">>, a.v4, a.v6)
          /\ ttl = t
          /\ conn = c
    /\ inbound = <<>> /\ sent = <<>>
    /\ InitTasksIdle
    /\ InitResolverIdle

SpecWire == InitWire /\ [][WireNext]_vars

----------------------------------------------------------------------------
(* Properties of the messages the responder sends (SpecWire).              *)

Range(seq) == {seq[k] : k \in 1..Len(seq)}

\* The query whose handling filled sent, when a query did.
InQuery == inbound[1].query

\* A probe is the one message sent with an Authority section.
IsProbe(m) == Len(m.Ns) > 0

\* A lookup answer starts with the instance's SRV record.
IsLookupAnswer(m) == Len(m.Answer) > 0 /\ m.Answer[1].Rrtype = "SRV"

\* The flushCache argument the lookup answers in sent were composed with:
\* false in handleQuestion, true in probe() and unregister().
FlushArg == inbound = <<>>

Records(m) == Range(m.Answer) \cup Range(m.Extra)

\* C1 (as claimed): every message sent as a response - query reply,
\* announcement, SetText announcement, goodbye - has QR=1, AA=1, RD=0 and
\* an empty Question section.
C1_ResponseHeader ==
    \A p \in Range(sent) :
        ~IsProbe(p.msg) =>
            /\ p.msg.Response
            /\ p.msg.Authoritative
            /\ ~p.msg.RecursionDesired
            /\ p.msg.Question = <<>>

\* C2 (as claimed): in every lookup answer SRV, TXT, A and AAAA carry the
\* cache-flush bit iff the answer was composed with flush=true, and no PTR
\* carries it.
C2_FlushIffArgument ==
    \A p \in Range(sent) :
        IsLookupAnswer(p.msg) =>
            \A rr \in Records(p.msg) :
                /\ rr.Rrtype \in {"SRV", "TXT", "A", "AAAA"}
                      => (TopBit(rr.Class) <=> FlushArg)
                /\ rr.Rrtype = "PTR" => ~TopBit(rr.Class)

\* C2 (amended): in every lookup answer SRV and TXT always carry the
\* cache-flush bit, A and AAAA carry it iff the answer was composed with
\* flush=true, and no PTR carries it.
C2_FlushBits ==
    \A p \in Range(sent) :
        IsLookupAnswer(p.msg) =>
            \A rr \in Records(p.msg) :
                /\ rr.Rrtype \in {"SRV", "TXT"} => TopBit(rr.Class)
                /\ rr.Rrtype \in {"A", "AAAA"} => (TopBit(rr.Class) <=> FlushArg)
                /\ rr.Rrtype = "PTR" => ~TopBit(rr.Class)

\* C2 witness: a reply to an instance-name question (composed with
\* flush=false) has been sent, with address records and PTR records in it.
C2_Witness ==
    \E p \in Range(sent) :
        /\ IsLookupAnswer(p.msg)
        /\ \E rr \in Records(p.msg) : rr.Rrtype = "A"
        /\ \E rr \in Records(p.msg) : rr.Rrtype = "PTR"
        /\ ~FlushArg

\* The PTR records of the query's Answer section that are still good for
\* at least half of the responder's TTL.
KnownPtrs ==
    {rr \in Range(InQuery.Answer) : rr.Rrtype = "PTR" /\ 2 * rr.Ttl >= ttl}

HasPtrTo(m, target) ==
    \E rr \in Range(m.Answer) : rr.Rrtype = "PTR" /\ rr.Ptr = target

\* C3 (as claimed): when the query lists a PTR with target R and
\* TTL >= T/2 as known, no response sent for any of its questions - the
\* instance lookup included - has a PTR with target R in its Answer section.
C3_SuppressedEverywhere ==
    inbound # <<>> =>
        \A known \in KnownPtrs : \A p \in Range(sent) :
            ~HasPtrTo(p.msg, known.Ptr)

\* C3 (amended): when the query lists a PTR with target R and TTL >= T/2
\* as known, no response sent for a meta-query, browse or subtype-browse
\* question of it has a PTR with target R in its Answer section.
C3_SuppressedInBrowsing ==
    inbound # <<>> =>
        \A known \in KnownPtrs : \A p \in Range(sent) :
            InQuery.Question[p.qi].Name # ServiceInstanceName(service)
                => ~HasPtrTo(p.msg, known.Ptr)

\* C3 witness: a query asked a browse question and a meta-query, listing
\* the browse PTR as known with at least half the TTL; the meta-query was
\* answered and the browse question was not.
C3_Witness ==
    /\ inbound # <<>>
    /\ \E known \in KnownPtrs : known.Ptr = ServiceInstanceName(service)
    /\ \E i \in 1..Len(InQuery.Question) :
          /\ InQuery.Question[i].Name = ServiceName(service)
          /\ \A p \in Range(sent) : p.qi # i
    /\ \E p \in Range(sent) :
          InQuery.Question[p.qi].Name = ServiceTypeName(service)

\* The packets sent for question i, in order.
PacketsFor(i) == SelectSeq(sent, LAMBDA p : p.qi = i)

\* Question i of the query in hand yields a non-empty Answer section.
Answered(i) ==
    /\ Len(InQuery.Ns) = 0
    /\ Len(handleQuestion(Server, InQuery.Question[i], NewReply(InQuery), InQuery,
                          inbound[1].ifIndex).Answer) > 0

\* C4: for every question that yields a non-empty Answer section: with the
\* top qclass bit set, exactly one packet is sent for it, unicast to the
\* sender on the receiving interface, from the socket of the sender's
\* family; otherwise every packet sent for it is multicast to the group, on
\* the receiving interface (on every interface when the receiving one is
\* unknown), at least one is sent and none is unicast.
C4_UnicastOrMulticast ==
    inbound # <<>> =>
        \A i \in 1..Len(InQuery.Question) :
            LET ps == PacketsFor(i)
            IN  Answered(i) =>
                  IF TopBit(InQuery.Question[i].Qclass)
                  THEN /\ Len(ps) = 1
                       /\ ps[1].kind = "unicast"
                       /\ ps[1].to = inbound[1].from
                       /\ ps[1].fam = inbound[1].from.fam
                       /\ ps[1].ifIndex = inbound[1].ifIndex
                  ELSE /\ Len(ps) >= 1
                       /\ \A p \in Range(ps) :
                             /\ p.kind = "multicast"
                             /\ p.to = Group(p.fam)
                             /\ inbound[1].ifIndex # 0
                                   => p.ifIndex = inbound[1].ifIndex
                       /\ inbound[1].ifIndex = 0
                             => \A f \in Joined, k \in 1..Len(Ifaces) :
                                   \E p \in Range(ps) :
                                       p.fam = f /\ p.ifIndex = Ifaces[k]

\* C4 witness: one query had a unicast question and a multicast question
\* answered, on a known receiving interface.
C4_Witness ==
    /\ inbound # <<>>
    /\ inbound[1].ifIndex # 0
    /\ \E i, j \in 1..Len(InQuery.Question) :
          /\ Answered(i) /\ TopBit(InQuery.Question[i].Qclass)
          /\ Answered(j) /\ ~TopBit(InQuery.Question[j].Qclass)
          /\ Len(PacketsFor(i)) = 1
          /\ Len(PacketsFor(j)) >= 1

\* The shapes of the three answers, for the service in hand.
MetaPtr == PTR(ServiceTypeName(service), ClassINET, ttl, ServiceName(service))

BrowsePtr == PTR(ServiceName(service), ClassINET, ttl, ServiceInstanceName(service))

IsMetaReply(m) == m.Answer = <<MetaPtr>> /\ m.Extra = <<>>

IsBrowsingReply(m) ==
    /\ m.Answer = <<BrowsePtr>>
    /\ Len(m.Extra) >= 2
    /\ m.Extra[1].Rrtype = "SRV" /\ m.Extra[1].Name = ServiceInstanceName(service)
    /\ m.Extra[2].Rrtype = "TXT" /\ m.Extra[2].Name = ServiceInstanceName(service)
    /\ \A k \in 3..Len(m.Extra) :
          m.Extra[k].Rrtype \in {"A", "AAAA"} /\ m.Extra[k].Name = service.HostName

IsLookupReply(m) ==
    /\ Len(m.Answer) >= 4
    /\ m.Answer[1].Rrtype = "SRV" /\ m.Answer[1].Name = ServiceInstanceName(service)
    /\ m.Answer[2].Rrtype = "TXT" /\ m.Answer[2].Name = ServiceInstanceName(service)
    /\ m.Answer[3] = BrowsePtr
    /\ m.Answer[4] = MetaPtr
    /\ m.Extra = <<>>

SubtypeNames ==
    {SubtypeQuestionName(Server, service.Subtypes[k]) : k \in 1..Len(service.Subtypes)}

AnsweredNames ==
    {ServiceTypeName(service), ServiceName(service), ServiceInstanceName(service)}
        \cup SubtypeNames

\* The reply owed to a question of the given name.
ReplyFor(name, m) ==
    IF name = ServiceTypeName(service) THEN IsMetaReply(m)
    ELSE IF name = ServiceName(service) THEN IsBrowsingReply(m)
    ELSE IF name = ServiceInstanceName(service) THEN IsLookupReply(m)
    ELSE name \in SubtypeNames /\ IsBrowsingReply(m)

\* The query lists the PTR that would open the reply to a question of the
\* given name, with at least half its TTL: the Answer section ends up empty.
EndsUpEmpty(name) ==
    /\ name # ServiceInstanceName(service)
    /\ \E rr \in Range(InQuery.Answer) :
          /\ rr.Rrtype = "PTR"
          /\ rr.Ptr = IF name = ServiceTypeName(service)
                      THEN MetaPtr.Ptr ELSE BrowsePtr.Ptr
          /\ rr.Ttl >= ttl \div 2

\* Every packet sent for a question is the reply owed to its name, with a
\* non-empty Answer section.
RepliesByName ==
    \A i \in 1..Len(InQuery.Question) : \A p \in Range(PacketsFor(i)) :
        /\ ReplyFor(InQuery.Question[i].Name, p.msg)
        /\ Len(p.msg.Answer) > 0

\* C20 (as stated): every question of a query is answered by its name
\* alone: the meta PTR for service_type_name, the browsing answer for
\* service_name and for a configured subtype's name, the lookup answer for
\* service_instance_name; nothing is sent for any other name nor for a
\* question whose Answer section ends up empty.
C20_EveryQuestionAnsweredByName ==
    inbound # <<>> =>
        /\ RepliesByName
        /\ \A i \in 1..Len(InQuery.Question) :
              Len(PacketsFor(i)) = 0
                <=> \/ InQuery.Question[i].Name \notin AnsweredNames
                    \/ EndsUpEmpty(InQuery.Question[i].Name)

\* C20 (amended): the same for the questions of a query whose Authority
\* section is empty; a query that carries an Authority section is dropped
\* whole, whatever the names of its questions.
C20_HandledQuestionAnsweredByName ==
    inbound # <<>> =>
        /\ RepliesByName
        /\ \A i \in 1..Len(InQuery.Question) :
              Len(PacketsFor(i)) = 0
                <=> \/ Len(InQuery.Ns) > 0
                    \/ InQuery.Question[i].Name \notin AnsweredNames
                    \/ EndsUpEmpty(InQuery.Question[i].Name)

\* C20 witness: one query without Authority section asked for a subtype's
\* name and for the name of another service: the first got the browsing
\* answer, the second nothing.
C20_Witness ==
    /\ inbound # <<>>
    /\ Len(InQuery.Ns) = 0
    /\ \E i, j \in 1..Len(InQuery.Question) :
          /\ InQuery.Question[i].Name \in SubtypeNames
          /\ Len(PacketsFor(i)) > 0
          /\ \A p \in Range(PacketsFor(i)) : IsBrowsingReply(p.msg)
          /\ InQuery.Question[j].Name \notin AnsweredNames
          /\ Len(PacketsFor(j)) = 0

\* The PTR that opens the reply to a question of the given name.
ReplyPtr(name) == IF name = ServiceTypeName(service) THEN MetaPtr ELSE BrowsePtr

\* The query lists that very record: same owner, same target, and a TTL of
\* at least half the outgoing one.
ListsSameRecord(name) ==
    \E rr \in Range(InQuery.Answer) :
        /\ rr.Rrtype = "PTR"
        /\ rr.Name = ReplyPtr(name).Name
        /\ rr.Ptr = ReplyPtr(name).Ptr
        /\ 2 * rr.Ttl >= ttl

\* C21 (as stated): the Answer section of the reply to a meta-query, browse
\* or subtype question is cleared only when the query lists the same PTR
\* record (owner and target) with a TTL of at least half the outgoing TTL;
\* otherwise the reply is sent.
C21_SuppressedOnlyBySameRecord ==
    (inbound # <<>> /\ Len(InQuery.Ns) = 0) =>
        \A i \in 1..Len(InQuery.Question) :
            LET name == InQuery.Question[i].Name
            IN  (name \in AnsweredNames /\ ~ListsSameRecord(name))
                    => Len(PacketsFor(i)) > 0

\* A packet of the announcement SetText sends: unsolicited, no probe, and
\* not a lookup answer.
IsTextAnnouncement(p) ==
    /\ inbound = <<>>
    /\ p.qi = 0
    /\ ~IsProbe(p.msg)
    /\ ~IsLookupAnswer(p.msg)

\* C27 (as stated): the announcement SetText multicasts carries a TXT record
\* with the text just stored and the cache-flush bit set.
C27_TextAnnouncedWithFlush ==
    \A p \in Range(sent) :
        IsTextAnnouncement(p) =>
            /\ p.kind = "multicast"
            /\ \E rr \in Records(p.msg) :
                  /\ rr.Rrtype = "TXT"
                  /\ rr.Txt = TxtRecords(service)
                  /\ TopBit(rr.Class)

\* The responders on the link: this one, and one for each service a
\* responder may have registered, the same instance included.
Responders ==
    {Server} \cup {[Server EXCEPT !.service =
                       Registered(svcArg, <<"a=1">>, a.v4, a.v6)] :
                     svcArg \in ServiceArgs, a \in GivenAddrs}

\* C30: no packet a responder sent - probe, announcement, query reply,
\* goodbye - makes a responder that receives it, on any interface and
\* socket, send anything.
C30_RespondersIgnoreResponders ==
    \A k \in 1..Len(sent) : \A r \in Responders :
        \A ifIndex \in 0..MaxIfaces : \A fam \in Joined :
            handleQuery(r, sent[k].msg, ifIndex, Peer(fam)) = <<>>

\* C30 witness: a probe is on the link; its question asks for the name of
\* the instance a receiving responder has registered.
C30_Witness ==
    \E k \in 1..Len(sent) :
        /\ IsProbe(sent[k].msg)
        /\ Len(sent[k].msg.Question) > 0
        /\ sent[k].msg.Question[1].Name = ServiceInstanceName(service)

\* The reply handleQuestion of responder s composes for a PTR question of
\* the given name, received on interface 1.
ReplyToName(s, name) ==
    LET query == Query(<<Question(name, ClassINET)>>, <<>>, FALSE, <<>>)
    IN  handleQuestion(s, Question(name, ClassINET), NewReply(query), query, 1)

\* The subtype PTRs of a lookup answer: those after SRV, TXT, PTR, meta-PTR.
SubtypePtrs(s, m) ==
    {m.Answer[4 + k] : k \in 1..Len(s.service.Subtypes)}

\* C31 (as stated): the owner name of every subtype PTR in a lookup answer,
\* announcement or goodbye on the wire is a name handleQuestion matches for
\* that subtype: a PTR question for it gets the browsing answer.
C31_SubtypeOwnerNamesAnswered ==
    \A k \in 1..Len(sent) :
        IsLookupAnswer(sent[k].msg) =>
            \A rr \in SubtypePtrs(Server, sent[k].msg) :
                /\ rr.Rrtype = "PTR"
                /\ rr.Ptr = ServiceInstanceName(service)
                /\ IsBrowsingReply(ReplyToName(Server, rr.Name))

\* The responder had Subtypes held the full subtype names instead of the
\* labels.
ServerWithFullSubtypes ==
    [Server EXCEPT !.service.Subtypes =
        [k \in 1..Len(service.Subtypes) |->
            SubtypeQuestionName(Server, service.Subtypes[k])]]

\* The same consistency, were the full names what Subtypes holds.
FullSubtypeOwnerNamesAnswered ==
    \A rr \in SubtypePtrs(ServerWithFullSubtypes,
                          Announcement(ServerWithFullSubtypes, 1)) :
        IsBrowsingReply(ReplyToName(ServerWithFullSubtypes, rr.Name))

----------------------------------------------------------------------------
(* Spec: the responder's tasks.  Register has returned: start() has        *)
(* launched recv4 / recv6 for the joined families and the probe task.      *)
(* Positions: recv  "select" -> "read" -> "handle" -> "select" ... "done"; *)
(* probe "initwait" -> ("probe" -> "probewait")* -> ("announce" ->         *)
(* "announcewait")* -> "done", or "aborted" from any wait;                 *)
(* Shutdown caller "idle" -> "lock" -> "unregister" -> "close" ->          *)
(* "closeconns" -> "wait" -> "returned".                                   *)

Fams == {4, 6}
Callers == 1..NumCallers

ProbeCount == 3
ProbeIntervalMs == 250
AnnounceIntervalMs == 1000
\* rand.Intn(250): the smallest and the largest initial delay, in ms.
InitialDelays == {0, ProbeIntervalMs - 1}

ShutdownSignalled == shouldShutdown > 0
SomeCallReturned == \E c \in Callers : cpc[c] = "returned"

\* The packets of a write that reach the wire: a write on a closed socket fails.
Written(packets) == SelectSeq(packets, LAMBDA p : conn[p.fam] = "open")

\* A worker task writes packets.
WorkerSends(packets) ==
    lateSends' = IF SomeCallReturned THEN lateSends + Len(Written(packets))
                 ELSE lateSends

\* defer s.refCount.Done()
Done == refCount' = refCount - 1

\* recv4 / recv6: select { case <-s.shouldShutdown: return; default: ... }
RecvSelect(f) ==
    /\ rpc[f] = "select"
    /\ IF ShutdownSignalled
       THEN Done /\ rpc' = [rpc EXCEPT ![f] = "done"]
       ELSE UNCHANGED refCount /\ rpc' = [rpc EXCEPT ![f] = "read"]
    /\ UNCHANGED <<shouldShutdown, lockHolder, isShutdown, conn, closeCalls, ppc, pi,
                   timeout, probeLog, cpc, goodbyes, lateSends, wireVars, resolverVars, textCalls, spc, sockIf, args, result>>

\* c.ReadFrom(buf) returns a datagram: only an open socket receives.
RecvPacket(f) ==
    /\ rpc[f] = "read"
    /\ conn[f] = "open"
    /\ rpc' = [rpc EXCEPT ![f] = "handle"]
    /\ UNCHANGED <<shouldShutdown, lockHolder, isShutdown, refCount, conn, closeCalls,
                   ppc, pi, timeout, probeLog, cpc, goodbyes, lateSends, wireVars,
                   resolverVars, textCalls, spc, sockIf, args, result>>

\* c.ReadFrom(buf) returns an error (always, once the socket is closed): continue.
RecvError(f) ==
    /\ rpc[f] = "read"
    /\ rpc' = [rpc EXCEPT ![f] = "select"]
    /\ UNCHANGED <<shouldShutdown, lockHolder, isShutdown, refCount, conn, closeCalls,
                   ppc, pi, timeout, probeLog, cpc, goodbyes, lateSends, wireVars,
                   resolverVars, textCalls, spc, sockIf, args, result>>

\* The datagrams a peer sends in this specification: a browse query asking
\* for a multicast or for a unicast reply, and a datagram that does not unpack.
TaskQueries ==
    {Query(<<Question(ServiceName(service), c)>>, <<>>, FALSE, <<>>) :
        c \in {ClassINET, ClassINET + qClassCacheFlush}}

\* parsePacket: the datagram does not unpack, or handleQuery answers it.
RecvHandle(f) ==
    /\ rpc[f] = "handle"
    /\ \/ UNCHANGED lateSends
       \/ \E query \in TaskQueries, ifIndex \in 0..MaxIfaces :
             WorkerSends(handleQuery(Server, query, ifIndex, Peer(f)))
    /\ rpc' = [rpc EXCEPT ![f] = "select"]
    /\ UNCHANGED <<shouldShutdown, lockHolder, isShutdown, refCount, conn, closeCalls,
                   ppc, pi, timeout, probeLog, cpc, goodbyes, wireVars, resolverVars, textCalls, spc, sockIf, args, result>>

Recv(f) == RecvSelect(f) \/ RecvPacket(f) \/ RecvError(f) \/ RecvHandle(f)

\* A select on the probe timer and shouldShutdown: the shutdown branch.
ProbeAbort ==
    /\ ppc \in {"initwait", "probewait", "announcewait"}
    /\ ShutdownSignalled
    /\ ppc' = "aborted"
    /\ Done
    /\ UNCHANGED <<shouldShutdown, lockHolder, isShutdown, conn, closeCalls, rpc, pi,
                   timeout, probeLog, cpc, goodbyes, lateSends, wireVars, resolverVars, textCalls, spc, sockIf, args, result>>

\* The initial timer of rand.Intn(250) ms fires.
ProbeStart ==
    /\ ppc = "initwait"
    /\ \E d \in InitialDelays : probeLog' = Append(probeLog, <<"wait", d>>)
    /\ ppc' = "probe" /\ pi' = 0
    /\ UNCHANGED <<shouldShutdown, lockHolder, isShutdown, refCount, conn, closeCalls,
                   rpc, timeout, cpc, goodbyes, lateSends, wireVars, resolverVars, textCalls, spc, sockIf, args, result>>

\* s.multicastResponse(q, 0); timer.Reset(250 * time.Millisecond)
ProbeSend ==
    /\ ppc = "probe"
    /\ WorkerSends(multicastResponse(Server, ProbeQuery(Server), 0))
    /\ probeLog' = Append(probeLog, <<"probe", 0>>)
    /\ ppc' = "probewait"
    /\ UNCHANGED <<shouldShutdown, lockHolder, isShutdown, refCount, conn, closeCalls,
                   rpc, pi, timeout, cpc, goodbyes, wireVars, resolverVars, textCalls, spc, sockIf, args, result>>

\* The 250 ms timer fires: i++, and after the last probe timeout := time.Second.
ProbeTick ==
    /\ ppc = "probewait"
    /\ probeLog' = Append(probeLog, <<"wait", ProbeIntervalMs>>)
    /\ IF pi + 1 < ProbeCount
       THEN ppc' = "probe" /\ pi' = pi + 1 /\ UNCHANGED timeout
       ELSE ppc' = "announce" /\ pi' = 0 /\ timeout' = AnnounceIntervalMs
    /\ UNCHANGED <<shouldShutdown, lockHolder, isShutdown, refCount, conn, closeCalls,
                   rpc, cpc, goodbyes, lateSends, wireVars, resolverVars, textCalls, spc, sockIf, args, result>>

\* One round of announcements, one per interface; timer.Reset(timeout).
ProbeAnnounce ==
    /\ ppc = "announce"
    /\ WorkerSends(AnnounceFrom(Server, 1))
    /\ probeLog' = probeLog \o [k \in 1..Len(Ifaces) |-> <<"announce", Ifaces[k]>>]
    /\ ppc' = "announcewait"
    /\ UNCHANGED <<shouldShutdown, lockHolder, isShutdown, refCount, conn, closeCalls,
                   rpc, pi, timeout, cpc, goodbyes, wireVars, resolverVars, textCalls, spc, sockIf, args, result>>

\* timeout *= 2
NextTimeoutSame(t) == t

NextTimeout(t) == t * 2

\* The announcement timer fires: timeout *= 2, i++; the task ends after
\* multicastRepetitions rounds.
AnnounceTick ==
    /\ ppc = "announcewait"
    /\ probeLog' = Append(probeLog, <<"wait", timeout>>)
    /\ timeout' = NextTimeout(timeout)
    /\ IF pi + 1 < multicastRepetitions
       THEN ppc' = "announce" /\ pi' = pi + 1 /\ UNCHANGED refCount
       ELSE ppc' = "done" /\ pi' = pi + 1 /\ Done
    /\ UNCHANGED <<shouldShutdown, lockHolder, isShutdown, conn, closeCalls, rpc, cpc,
                   goodbyes, lateSends, wireVars, resolverVars, textCalls, spc, sockIf, args, result>>

Probe ==
    \/ ProbeAbort \/ ProbeStart \/ ProbeSend \/ ProbeTick
    \/ ProbeAnnounce \/ AnnounceTick

\* A task calls Shutdown().
ShutdownCall(c) ==
    /\ cpc[c] = "idle"
    /\ cpc' = [cpc EXCEPT ![c] = "lock"]
    /\ UNCHANGED <<shouldShutdown, lockHolder, isShutdown, refCount, conn, closeCalls,
                   rpc, ppc, pi, timeout, probeLog, goodbyes, lateSends, wireVars,
                   resolverVars, textCalls, spc, sockIf, args, result>>

\* if s.isShutdown { return }
AlreadyShutdownNever == FALSE

AlreadyShutdown == isShutdown

\* s.shutdownLock.Lock(), then the isShutdown test (the deferred Unlock
\* runs on return).
ShutdownLock(c) ==
    /\ cpc[c] = "lock"
    /\ lockHolder = 0
    /\ IF AlreadyShutdown
       THEN cpc' = [cpc EXCEPT ![c] = "returned"] /\ UNCHANGED lockHolder
       ELSE cpc' = [cpc EXCEPT ![c] = "unregister"] /\ lockHolder' = c
    /\ UNCHANGED <<shouldShutdown, isShutdown, refCount, conn, closeCalls, rpc, ppc, pi,
                   timeout, probeLog, goodbyes, lateSends, wireVars, resolverVars, textCalls, spc, sockIf, args, result>>

\* s.unregister(): the goodbye is multicast.
ShutdownUnregister(c) ==
    /\ cpc[c] = "unregister"
    /\ goodbyes' = IF Len(Written(unregister(Server))) > 0 THEN goodbyes + 1
                   ELSE goodbyes
    /\ sent' = sent \o Written(unregister(Server))
    /\ cpc' = [cpc EXCEPT ![c] = "close"]
    /\ UNCHANGED <<shouldShutdown, lockHolder, isShutdown, refCount, conn, closeCalls,
                   rpc, ppc, pi, timeout, probeLog, lateSends, service, ttl, inbound,
                   resolverVars, textCalls, spc, sockIf, args, result>>

\* close(s.shouldShutdown)
ShutdownSignal(c) ==
    /\ cpc[c] = "close"
    /\ shouldShutdown' = shouldShutdown + 1
    /\ cpc' = [cpc EXCEPT ![c] = "closeconns"]
    /\ UNCHANGED <<lockHolder, isShutdown, refCount, conn, closeCalls, rpc, ppc, pi,
                   timeout, probeLog, goodbyes, lateSends, wireVars, resolverVars, textCalls, spc, sockIf, args, result>>

\* s.ipv4conn.Close(); s.ipv6conn.Close(), each when not nil.
ShutdownCloseConns(c) ==
    /\ cpc[c] = "closeconns"
    /\ conn' = [f \in Fams |-> IF conn[f] = "nil" THEN "nil" ELSE "closed"]
    /\ closeCalls' = [f \in Fams |->
                        IF conn[f] = "nil" THEN closeCalls[f] ELSE closeCalls[f] + 1]
    /\ cpc' = [cpc EXCEPT ![c] = "wait"]
    /\ UNCHANGED <<shouldShutdown, lockHolder, isShutdown, refCount, rpc, ppc, pi,
                   timeout, probeLog, goodbyes, lateSends, wireVars, resolverVars, textCalls, spc, sockIf, args, result>>

\* s.refCount.Wait() returns.
WaitReturnsAtOnce == TRUE

WaitReturns == refCount = 0

\* s.refCount.Wait(); s.isShutdown = true; return (Unlock).
ShutdownWait(c) ==
    /\ cpc[c] = "wait"
    /\ WaitReturns
    /\ isShutdown' = TRUE
    /\ lockHolder' = 0
    /\ cpc' = [cpc EXCEPT ![c] = "returned"]
    /\ UNCHANGED <<shouldShutdown, refCount, conn, closeCalls, rpc, ppc, pi, timeout,
                   probeLog, goodbyes, lateSends, wireVars, resolverVars, textCalls, spc, sockIf, args, result>>

Shutdown(c) ==
    \/ ShutdownLock(c) \/ ShutdownUnregister(c) \/ ShutdownSignal(c)
    \/ ShutdownCloseConns(c) \/ ShutdownWait(c)

Next ==
    \/ \E f \in Fams : Recv(f)
    \/ Probe
    \/ \E c \in Callers : ShutdownCall(c)
    \/ \E c \in Callers : Shutdown(c)

\* Register / RegisterProxy have returned: newServer joined at least one
\* family and start() launched the workers.
InitTasks ==
    /\ ttl = defaultTTL
    /\ inbound = <<>> /\ sent = <<>>
    /\ conn \in ConnChoices
    /\ shouldShutdown = 0 /\ lockHolder = 0 /\ isShutdown = FALSE
    /\ refCount = Cardinality({f \in Fams : conn[f] = "open"}) + 1
    /\ closeCalls = [f \in Fams |-> 0]
    /\ rpc = [f \in Fams |-> IF conn[f] = "open" THEN "select" ELSE "none"]
    /\ ppc = "initwait" /\ pi = 0 /\ timeout = 0 /\ probeLog = <<>>
    /\ cpc = [c \in Callers |-> "idle"]
    /\ goodbyes = 0 /\ lateSends = 0 /\ textCalls = <<>>
    /\ spc = <<>> /\ sockIf = <<>>
    /\ args = <<>> /\ result = "ok"
    /\ InitResolverIdle

Init ==
    /\ service = Registered(SvcS, <<"a=1">>, <<>>, <<>>)
    /\ InitTasks

Spec == Init /\ [][Next]_vars

\* The scheduler runs every task that can take a step, timers fire, and a
\* read on a closed socket returns; nobody is obliged to call Shutdown, and
\* no datagram is obliged to arrive.
FairSpec ==
    /\ Spec
    /\ \A f \in Fams : WF_vars(RecvSelect(f) \/ RecvError(f) \/ RecvHandle(f))
    /\ WF_vars(Probe)
    /\ \A c \in Callers : WF_vars(Shutdown(c))

----------------------------------------------------------------------------
(* SpecApi: the tasks of Spec and a task that calls SetText, at any time.  *)

\* announceText() sending the text the service had before the assignment.
SetTextAnnouncesOld(text) == announceText(Server)

\* s.service.Text = text; s.announceText()
SetTextAnnounces(text) ==
    announceText([Server EXCEPT !.service = [service EXCEPT !.Text = text]])

\* The task that calls SetText(text), once: the text is stored and announced.
TaskSetText(text) ==
    /\ textCalls = <<>>
    /\ service' = [service EXCEPT !.Text = text]
    /\ sent' = sent \o Written(SetTextAnnounces(text))
    /\ textCalls' = Append(textCalls,
                           [text |-> text,
                            early |-> \A c \in Callers : cpc[c] = "idle",
                            mark |-> Len(sent)])
    /\ UNCHANGED <<ttl, inbound, shouldShutdown, lockHolder, isShutdown, refCount, conn,
                   closeCalls, rpc, ppc, pi, timeout, probeLog, cpc, goodbyes, lateSends,
                   spc, sockIf, args, result, resolverVars>>

NextApi ==
    \/ Next
    \/ \E text \in Texts : TaskSetText(text)

\* Register has returned on a host with both families, or RegisterProxy
\* with given addresses on a host with IPv4 only.
InitApi ==
    /\ InitTasks
    /\ \E a \in GivenAddrs :
          /\ service = Registered(SvcS, <<"a=1">>, a.v4, a.v6)
          /\ IF Len(a.v4) = 0 THEN conn = BothOpen ELSE conn[6] = "nil"

SpecApi == InitApi /\ [][NextApi]_vars

----------------------------------------------------------------------------
(* Properties of the responder's tasks (Spec, FairSpec).                   *)

IsPrefix(a, b) == Len(a) <= Len(b) /\ SubSeq(b, 1, Len(a)) = a

AnnounceRound == [k \in 1..MaxIfaces |-> <<"announce", k>>]

\* What the claim says the probe task does, d being the initial delay.
ClaimedSchedule(d) ==
    <<<<"wait", d>>,
      <<"probe", 0>>, <<"wait", 250>>,
      <<"probe", 0>>, <<"wait", 250>>,
      <<"probe", 0>>, <<"wait", 250>>>>
    \o AnnounceRound \o <<<<"wait", 1000>>>>
    \o AnnounceRound \o <<<<"wait", 2000>>>>

\* C8: at every moment the probe task has done a prefix of: wait 0..250 ms,
\* then 3 probes each followed by a 250 ms wait, then 2 rounds of one
\* announcement per interface followed by waits of 1 s and 2 s; and when it
\* ends without being interrupted it has done exactly that.
C8_ProbeSchedule ==
    \/ probeLog = <<>>
    \/ \E d \in 0..250 :
          /\ probeLog[1] = <<"wait", d>>
          /\ IsPrefix(probeLog, ClaimedSchedule(d))
          /\ ppc = "done" => probeLog = ClaimedSchedule(d)

\* C8 witness: the probe task ran to its end and Shutdown was never called.
C8_Witness ==
    /\ ppc = "done"
    /\ shouldShutdown = 0
    /\ \A c \in Callers : cpc[c] = "idle"

WorkersExited ==
    /\ \A f \in Fams : rpc[f] \in {"none", "done"}
    /\ ppc \in {"done", "aborted"}

\* C9: over any number of Shutdown calls the goodbye is sent at most once,
\* the shutdown channel is closed at most once and each socket is closed at
\* most once; once a call has returned each of them has happened exactly
\* once; and every call that was made returns.
C9_ShutdownIdempotent ==
    /\ [](/\ goodbyes <= 1
          /\ shouldShutdown <= 1
          /\ \A f \in Fams : closeCalls[f] <= 1)
    /\ [](SomeCallReturned =>
            /\ goodbyes = 1
            /\ shouldShutdown = 1
            /\ \A f \in Fams : conn[f] # "nil" => closeCalls[f] = 1)
    /\ \A c \in Callers : (cpc[c] # "idle") ~> (cpc[c] = "returned")

\* C9 witness: every caller has called Shutdown and every call has returned.
C9_Witness ==
    /\ \A c \in Callers : cpc[c] = "returned"
    /\ goodbyes = 1

\* C10: once Shutdown is called every worker eventually exits; a Shutdown
\* call has returned only when every worker has exited; and no worker
\* writes a packet after a Shutdown call has returned.
C10_ShutdownJoinsWorkers ==
    /\ (\E c \in Callers : cpc[c] # "idle") ~> WorkersExited
    /\ [](SomeCallReturned => WorkersExited)
    /\ [](lateSends = 0)

\* C10 witness: Shutdown has returned after the probe task left one of its
\* waits through the shutdown branch and both receive tasks returned.
C10_Witness ==
    /\ SomeCallReturned
    /\ ppc = "aborted"
    /\ \A f \in Fams : rpc[f] = "done"
    /\ refCount = 0

\* The goodbye is the one lookup answer Shutdown and SetText callers write.
Goodbyes == {k \in 1..Len(sent) : IsLookupAnswer(sent[k].msg)}

SocketClosed == \E f \in Fams : conn[f] = "closed"

\* C11: every goodbye has TTL 0 on every record, the address records
\* included; and once the shutdown signal is raised or a socket is closed,
\* the goodbye is already on the wire of every joined family.
C11_GoodbyeFirstWithTtlZero ==
    /\ \A k \in Goodbyes :
          /\ sent[k].kind = "multicast"
          /\ \A rr \in Records(sent[k].msg) : rr.Ttl = 0
          /\ \A t \in {"SRV", "TXT", "PTR"} :
                \E rr \in Records(sent[k].msg) : rr.Rrtype = t
          /\ Len(service.AddrIPv4) > 0
                => \E rr \in Records(sent[k].msg) : rr.Rrtype = "A"
          /\ Len(service.AddrIPv6) > 0
                => \E rr \in Records(sent[k].msg) : rr.Rrtype = "AAAA"
    /\ (ShutdownSignalled \/ SocketClosed)
          => \A f \in Fams :
                conn[f] # "nil" => \E k \in Goodbyes : sent[k].fam = f

\* C11 witness: Shutdown has returned on a server with given addresses;
\* its goodbye carried A and AAAA records.
C11_Witness ==
    /\ SomeCallReturned /\ SocketClosed
    /\ \E k \in Goodbyes :
          /\ \E rr \in Records(sent[k].msg) : rr.Rrtype = "A" /\ rr.Ttl = 0
          /\ \E rr \in Records(sent[k].msg) : rr.Rrtype = "AAAA" /\ rr.Ttl = 0

\* Packet k of sent announces text t: a multicast response with a TXT
\* record of the instance carrying t.
AnnouncesText(k, t) ==
    /\ sent[k].kind = "multicast"
    /\ sent[k].msg.Response
    /\ ~IsLookupAnswer(sent[k].msg)
    /\ \E rr \in Records(sent[k].msg) :
          /\ rr.Rrtype = "TXT"
          /\ rr.Name = ServiceInstanceName(service)
          /\ rr.Txt = TxtRecords([Text |-> t])

----------------------------------------------------------------------------
(* SpecConstruct: one call of Register, RegisterProxy or Browse, from its  *)
(* arguments and the host's answers to what the constructor leaves behind. *)

\* The arguments callers pass.
InstanceArgs == {Empty, InstI}
ServiceArgsGiven == {Empty, SvcS, SvcS \o <<",">> \o SubP}
DomainArgs == {Empty, DomL, DomL \o Dot}
\* Ports: none, a port, and an int beyond 16 bits (65536 + 8080).
PortArgs == {0, 8080, 73616}
\* Hosts: none, a bare label, a name under the domain without and with the
\* trailing dot, and a label that ends with the domain's letters.
HostArgs == {Empty, <<"h">>, <<"h", ".", "l">>, HostH, <<"h", "l">>}
\* IP strings: an IPv4 and an IPv6 address, and a string that is no address.
IpArgs == {<<>>, <<<<"192", 0>>, <<"2001", 0>>>>, <<<<"192", 0>>, <<"bad", 0>>>>}

\* net.ParseIP: nil for a string that is no address.
ParseIP(ip) == IF ip[1] = "bad" THEN <<>> ELSE ip

\* ipAddr.To4() != nil
To4(ipAddr) == ipAddr[1] \in {"192", "10", "127"}

\* if entry.Port == 0: the test that never fires.
MissingPortNever(e) == FALSE

MissingPort(e) == e.Port = 0

\* The host name the constructors store: the domain is appended unless the
\* trimmed host already ends with it.
QualifyHost(host, domain) ==
    IF ~HasSuffix(trimDot(host), domain)
    THEN trimDot(host) \o Dot \o trimDot(domain) \o Dot
    ELSE host

\* newServer: the sockets of the families that joined, or the error.
newServer(j4, j6) ==
    IF ~j4 /\ ~j6 THEN [err |-> "no supported interface"]
    ELSE [err |-> "nil",
          conn |-> [f \in {4, 6} |->
                      IF (f = 4 /\ j4) \/ (f = 6 /\ j6) THEN "open" ELSE "nil"]]

RECURSIVE IfaceAddrsFrom(_, _)
IfaceAddrsFrom(k, fam) ==
    IF k > Len(Ifaces) THEN <<>>
    ELSE (IF fam = 4 THEN addrsForInterface(Ifaces[k]).v4
          ELSE addrsForInterface(Ifaces[k]).v6) \o IfaceAddrsFrom(k + 1, fam)

Failed(msg) == [err |-> msg]

\* Register, up to the call of start(). a.host is os.Hostname()'s answer.
Register(a) ==
    LET e0 == [newServiceEntry(a.instance, a.service, a.domain) EXCEPT
                  !.Port = a.port, !.Text = a.text]
        dom == IF e0.Domain = Empty THEN DomL \o Dot ELSE e0.Domain
        e1 == [e0 EXCEPT !.Domain = dom,
                         !.HostName = QualifyHost(a.host, dom),
                         !.AddrIPv4 = IfaceAddrsFrom(1, 4),
                         !.AddrIPv6 = IfaceAddrsFrom(1, 6)]
        srv == newServer(a.j4, a.j6)
    IN  IF e0.Instance = Empty THEN Failed("missing service instance name")
        ELSE IF e0.Service = Empty THEN Failed("missing service name")
        ELSE IF MissingPort(e0) THEN Failed("missing port")
        ELSE IF Len(e1.AddrIPv4) = 0 /\ Len(e1.AddrIPv6) = 0
          THEN Failed("could not determine host IP addresses")
        ELSE IF srv.err # "nil" THEN Failed(srv.err)
        ELSE [err |-> "nil", entry |-> e1, conn |-> srv.conn]

\* RegisterProxy, up to the call of start().
RegisterProxy(a) ==
    LET e0 == [newServiceEntry(a.instance, a.service, a.domain) EXCEPT
                  !.Port = a.port, !.Text = a.text, !.HostName = a.host]
        dom == IF e0.Domain = Empty THEN DomL ELSE e0.Domain
        parsed == [k \in 1..Len(a.ips) |-> ParseIP(a.ips[k])]
        e1 == [e0 EXCEPT !.Domain = dom,
                         !.HostName = QualifyHost(a.host, dom),
                         !.AddrIPv4 = SelectSeq(parsed, To4),
                         !.AddrIPv6 = SelectSeq(parsed, LAMBDA ip : ~To4(ip))]
        srv == newServer(a.j4, a.j6)
    IN  IF e0.Instance = Empty THEN Failed("missing service instance name")
        ELSE IF e0.Service = Empty THEN Failed("missing service name")
        ELSE IF e0.HostName = Empty THEN Failed("missing host name")
        ELSE IF MissingPort(e0) THEN Failed("missing port")
        ELSE IF \E k \in 1..Len(parsed) : parsed[k] = <<>>
          THEN Failed("failed to parse given IP")
        ELSE IF srv.err # "nil" THEN Failed(srv.err)
        ELSE [err |-> "nil", entry |-> e1, conn |-> srv.conn]

\* The constructor returns: on success s.service is set and start() has
\* launched recv4 / recv6 for the joined families and probe.
Returns(out) ==
    /\ result = "none"
    /\ result' = IF out.err = "nil" THEN "ok" ELSE out.err
    /\ IF out.err = "nil"
       THEN /\ service' = out.entry
            /\ conn' = out.conn
            /\ refCount' = Cardinality({f \in {4, 6} : out.conn[f] = "open"}) + 1
            /\ rpc' = [f \in {4, 6} |-> IF out.conn[f] = "open" THEN "select" ELSE "none"]
            /\ ppc' = "initwait"
       ELSE UNCHANGED <<service, conn, refCount, rpc, ppc>>
    /\ UNCHANGED <<ttl, inbound, sent, shouldShutdown, lockHolder, isShutdown, closeCalls,
                   pi, timeout, probeLog, cpc, goodbyes, lateSends, textCalls, spc, sockIf, args,
                   resolverVars>>

\* newLookupParams, as Browse and Lookup fill it.
newLookupParams(instance, svc, domain, isBrowsing) ==
    [Instance |-> instance,
     Service  |-> parseSubtypes(svc).Service,
     Subtypes |-> parseSubtypes(svc).Subtypes,
     Domain   |-> domain,
     isBrowsing |-> isBrowsing]

\* IPType: the families a client listens on; IPv4AndIPv6 is the default.
IPv4AndIPv6 == {4, 6}
ListenOnArgs == {{4}, {6}, IPv4AndIPv6}

\* newClient: the selected families are joined in turn, and the first
\* failure is returned.
newClient(listenOn, j4, j6) ==
    IF 4 \in listenOn /\ ~j4 THEN Failed("no IPv4 interface joined")
    ELSE IF 6 \in listenOn /\ ~j6 THEN Failed("no IPv6 interface joined")
    ELSE [err |-> "nil",
          conn |-> [f \in {4, 6} |-> IF f \in listenOn THEN "open" ELSE "nil"]]

\* Browse up to its call of cl.run: newClient, then the parameters.
CallBrowse ==
    /\ args.call = "Browse"
    /\ result = "none"
    /\ LET out == newClient(args.listenOn, args.j4, args.j6)
       IN  /\ result' = IF out.err = "nil" THEN "ok" ELSE out.err
           /\ IF out.err = "nil"
              THEN /\ cconn' = out.conn
                   /\ params' = newLookupParams(Empty, args.service, args.domain, TRUE)
                   /\ runpc' = "start"
              ELSE UNCHANGED <<cconn, params, runpc>>
    /\ UNCHANGED <<wireVars, shouldShutdown, lockHolder, isShutdown, refCount, conn,
                   closeCalls, rpc, ppc, pi, timeout, probeLog, cpc, goodbyes, lateSends,
                   textCalls, spc, sockIf, args, now, mpc, entries, order, sentEntries, lastMsg,
                   prevMsg, delivered, prevDelivered, ctx, runErr, sink, crpc, msgCh,
                   arrivals, lateDeliveries, handed>>

CallRegister == args.call = "Register" /\ Returns(Register(args))

CallRegisterProxy == args.call = "RegisterProxy" /\ Returns(RegisterProxy(args))

ConstructNext == CallRegister \/ CallRegisterProxy \/ CallBrowse

\* The calls: every combination of arguments and of families that join;
\* Register takes the host from the operating system and no IP strings,
\* Browse takes a service, a domain and the families to listen on.
InitConstruct ==
    /\ args \in [call : {"Register", "RegisterProxy", "Browse"},
                 instance : InstanceArgs, service : ServiceArgsGiven,
                 domain : DomainArgs, port : PortArgs, host : HostArgs,
                 ips : IpArgs, text : {<<"a=1">>}, listenOn : ListenOnArgs,
                 j4 : BOOLEAN, j6 : BOOLEAN]
    /\ args.call = "Register" => args.host # Empty /\ args.ips = <<>>
    /\ args.call # "Browse" => args.listenOn = IPv4AndIPv6
    /\ args.call = "Browse" =>
          /\ args.instance = Empty /\ args.service = SvcS /\ args.port = 0
          /\ args.host = Empty /\ args.ips = <<>>
    /\ result = "none"
    /\ service = <<>>
    /\ ttl = defaultTTL
    /\ conn = [f \in {4, 6} |-> "nil"]
    /\ inbound = <<>> /\ sent = <<>>
    /\ InitWorkersIdle
    /\ InitResolverIdle

SpecConstruct == InitConstruct /\ [][ConstructNext]_vars

\* Nothing was started: no group joined, no worker launched, nothing sent.
NothingStarted ==
    /\ \A f \in {4, 6} : conn[f] = "nil" /\ rpc[f] = "none"
    /\ ppc = "none" /\ refCount = 0
    /\ sent = <<>>

\* The arguments the constructor must refuse.
BadArguments ==
    /\ args.call # "Browse"
    /\ \/ args.instance = Empty
       \/ args.service = Empty
       \/ args.port = 0
       \/ /\ args.call = "RegisterProxy"
          /\ \/ args.host = Empty
             \/ \E k \in 1..Len(args.ips) : args.ips[k][1] = "bad"

\* C16: a call with an empty instance, an empty service or port 0 - and
\* for RegisterProxy an empty host or an IP string that is no address -
\* returns an error and has started nothing.
C16_BadArgumentsRefused ==
    (result # "none" /\ BadArguments) => (result # "ok" /\ NothingStarted)

\* C16 witness: RegisterProxy was refused for an IP string that is no
\* address, all other arguments being good and a family ready to join.
C16_Witness ==
    /\ args.call = "RegisterProxy"
    /\ result = "failed to parse given IP"
    /\ args.j4
    /\ NothingStarted

\* The domain a call asks for: the default when none is given.
AskedDomain == trimDot(IF args.domain = Empty THEN DomL ELSE args.domain)

\* C17 (as stated): after a successful call the host name ends with
\* ".<domain>." with exactly one trailing dot, the domain appearing once.
C17_HostNameQualified ==
    (result = "ok" /\ args.call # "Browse") =>
        /\ HasSuffix(service.HostName, Dot \o AskedDomain \o Dot)
        /\ ~HasSuffix(service.HostName, Dot \o Dot)
        /\ ~HasSuffix(service.HostName, Dot \o AskedDomain \o Dot \o AskedDomain \o Dot)

\* The sockets the engine of the call holds.
EngineConn == IF args.call = "Browse" THEN cconn ELSE conn

JoinedFamily(f) == (f = 4 /\ args.j4) \/ (f = 6 /\ args.j6)

\* C18 (as stated): with good arguments and the default family selection,
\* the constructor succeeds whenever at least one family joins, and the
\* engine holds the sockets of exactly the families that joined.
C18_OneFamilyIsEnough ==
    (/\ result # "none"
     /\ ~BadArguments
     /\ args.listenOn = IPv4AndIPv6
     /\ \E f \in {4, 6} : JoinedFamily(f))
    => /\ result = "ok"
       /\ \A f \in {4, 6} : EngineConn[f] = "open" <=> JoinedFamily(f)

\* The SRV records of the messages a started responder composes.
SrvRecordsSent ==
    {rr \in Records(Announcement(Server, 1))
            \cup Records(composeBrowsingAnswers(Server, NewResponse, 1)) :
        rr.Rrtype = "SRV"}

\* C28 (as stated): a running responder's port is within 1..65535 and is
\* the port of every SRV record it sends; a port outside is refused.
C28_PortWithinSixteenBits ==
    (result = "ok" /\ args.call # "Browse") =>
        /\ service.Port \in 1..65535
        /\ SrvRecordsSent # {}
        /\ \A rr \in SrvRecordsSent : rr.Port = args.port

----------------------------------------------------------------------------
(* SpecResolver: client.mainloop.  Positions: "select" (blocked in the     *)
(* select on ctx, the cleanup ticker and msgCh) and "deliver" (in the loop *)
(* over the entries of the datagram in hand).  Maps are functions; the     *)
(* order in which Go ranges over a map is any order.                       *)

OneMinute == 60
ClockStep == OneMinute \div 2

MapRemove(m, k) == [x \in DOMAIN m \ {k} |-> m[x]]
MapPut(m, k, v) == [x \in DOMAIN m \cup {k} |-> IF x = k THEN v ELSE m[x]]

\* sections := append(msg.Answer, msg.Ns...); append(sections, msg.Extra...)
Sections(msg) == msg.Answer \o msg.Ns \o msg.Extra

\* CacheFlush = header.Class > 32768
ClassHasFlush(class) == class > qClassCacheFlush

\* The entry a record selects in the map, created when it is not there.
EntryAt(p, m, key, instance) ==
    IF key \in DOMAIN m THEN m[key]
    ELSE newServiceEntry(instance, p.Service, p.Domain)

\* Pass 1, one record: the entries map after a PTR, SRV or TXT record.
SrvSetsNoPort(p, m, rr, at) ==
    LET e == EntryAt(p, m, rr.Name, trimDot(Remove(rr.Name, ServiceName(p), 1)))
    IN  MapPut(m, rr.Name,
               [e EXCEPT !.HostName = rr.Target,
                         !.Expiry = at + rr.Ttl,
                         !.CacheFlush = ClassHasFlush(rr.Class)])

FusePtr(p, m, rr, at) ==
    IF ServiceName(p) # rr.Name THEN m
    ELSE IF ServiceInstanceName(p) # Empty /\ ServiceInstanceName(p) # rr.Ptr THEN m
    ELSE LET e == EntryAt(p, m, rr.Ptr, trimDot(Remove(rr.Ptr, rr.Name, -1)))
         IN  MapPut(m, rr.Ptr,
                    [e EXCEPT !.Expiry = at + rr.Ttl,
                              !.CacheFlush = ClassHasFlush(rr.Class)])

SrvSets(p, m, rr, at) ==
    LET e == EntryAt(p, m, rr.Name, trimDot(Remove(rr.Name, ServiceName(p), 1)))
    IN  MapPut(m, rr.Name,
               [e EXCEPT !.HostName = rr.Target,
                         !.Port = rr.Port,
                         !.Expiry = at + rr.Ttl,
                         !.CacheFlush = ClassHasFlush(rr.Class)])

\* The SRV case without its test of the looked-up instance.
FuseSrvAnyInstance(p, m, rr, at) ==
    IF ~HasSuffix(rr.Name, ServiceName(p)) THEN m
    ELSE SrvSets(p, m, rr, at)

FuseSrv(p, m, rr, at) ==
    IF ServiceInstanceName(p) # Empty /\ ServiceInstanceName(p) # rr.Name THEN m
    ELSE IF ~HasSuffix(rr.Name, ServiceName(p)) THEN m
    ELSE SrvSets(p, m, rr, at)

FuseTxt(p, m, rr, at) ==
    IF ServiceInstanceName(p) # Empty /\ ServiceInstanceName(p) # rr.Name THEN m
    ELSE IF ~HasSuffix(rr.Name, ServiceName(p)) THEN m
    ELSE LET e == EntryAt(p, m, rr.Name,
                          trimDot(Remove(rr.Name, ServiceName(p), 1)))
         IN  MapPut(m, rr.Name,
                    [e EXCEPT !.Text = rr.Txt,
                              !.Expiry = at + rr.Ttl,
                              !.CacheFlush = ClassHasFlush(rr.Class)])

RECURSIVE Pass1(_, _, _, _, _)
Pass1(p, m, recs, i, at) ==
    IF i > Len(recs) THEN m
    ELSE LET rr == recs[i]
             m2 == CASE rr.Rrtype = "PTR" -> FusePtr(p, m, rr, at)
                     [] rr.Rrtype = "SRV" -> FuseSrv(p, m, rr, at)
                     [] rr.Rrtype = "TXT" -> FuseTxt(p, m, rr, at)
                     [] OTHER -> m
         IN  Pass1(p, m2, recs, i + 1, at)

\* Pass 2, one record: an A / AAAA record is appended to every entry whose
\* HostName is the record's owner.
FuseAddr(m, rr) ==
    [k \in DOMAIN m |->
        IF m[k].HostName # rr.Name THEN m[k]
        ELSE IF rr.Rrtype = "A"
          THEN [m[k] EXCEPT !.AddrIPv4 = Append(m[k].AddrIPv4, rr.Addr)]
        ELSE [m[k] EXCEPT !.AddrIPv6 = Append(m[k].AddrIPv6, rr.Addr)]]

RECURSIVE Pass2(_, _, _)
Pass2(m, recs, i) ==
    IF i > Len(recs) THEN m
    ELSE Pass2(IF recs[i].Rrtype \in {"A", "AAAA"} THEN FuseAddr(m, recs[i]) ELSE m,
               recs, i + 1)

\* The two rounds folded into one: an address record binds to the entries
\* built from the records before it.
RECURSIVE OnePass(_, _, _, _, _)
OnePass(p, m, recs, i, at) ==
    IF i > Len(recs) THEN m
    ELSE LET rr == recs[i]
             m2 == CASE rr.Rrtype = "PTR" -> FusePtr(p, m, rr, at)
                     [] rr.Rrtype = "SRV" -> FuseSrv(p, m, rr, at)
                     [] rr.Rrtype = "TXT" -> FuseTxt(p, m, rr, at)
                     [] rr.Rrtype \in {"A", "AAAA"} -> FuseAddr(m, rr)
                     [] OTHER -> m
         IN  OnePass(p, m2, recs, i + 1, at)

FuseOnePass(p, msg, at) == OnePass(p, <<>>, Sections(msg), 1, at)

\* The entries map mainloop builds from one datagram taken at time at.
Fuse(p, msg, at) == Pass2(Pass1(p, <<>>, Sections(msg), 1, at), Sections(msg), 1)

\* if !e.Expiry.After(now): the entry is stale.
ExpiredBefore(e, at) == e.Expiry < at

Expired(e, at) == ~(e.Expiry > at)

\* The test that skips an entry delivered before.
SkipDelivered(e, prior) ==
    ~(e.Expiry > prior.Expiry - OneMinute) /\ ~e.CacheFlush

\* case msg := <-msgCh: the two passes over the datagram.
ReceiveMsg(msg) ==
    /\ mpc = "select"
    /\ prevMsg' = lastMsg
    /\ prevDelivered' = delivered
    /\ lastMsg' = <<[msg |-> msg, at |-> now]>>
    /\ delivered' = <<>>
    /\ entries' = Fuse(params, msg, now)
    /\ order' = DOMAIN entries'
    /\ mpc' = IF order' = {} THEN "select" ELSE "deliver"
    /\ UNCHANGED <<params, now, sentEntries, wireVars, taskVars>>

MainReceive(msg) == ReceiveMsg(msg) /\ UNCHANGED clientVars

\* One iteration of "for k, e := range entries": stale entries are dropped
\* and evicted, entries delivered before are skipped unless refreshed, the
\* others are sent to the subscriber and remembered.
VisitEntry(k) ==
    /\ mpc = "deliver"
    /\ k \in order
    /\ order' = order \ {k}
    /\ mpc' = IF order' = {} THEN "select" ELSE "deliver"
    /\ LET e == entries[k]
       IN  IF Expired(e, lastMsg[1].at)
           THEN /\ entries' = MapRemove(entries, k)
                /\ sentEntries' = MapRemove(sentEntries, k)
                /\ UNCHANGED delivered
           ELSE IF k \in DOMAIN sentEntries /\ SkipDelivered(e, sentEntries[k])
           THEN UNCHANGED <<entries, sentEntries, delivered>>
           ELSE /\ delivered' = Append(delivered, [key |-> k, entry |-> e])
                /\ sentEntries' = MapPut(sentEntries, k, e)
                /\ UNCHANGED entries
    /\ UNCHANGED <<params, now, lastMsg, prevMsg, prevDelivered, wireVars, taskVars>>

MainVisit(k) == VisitEntry(k) /\ UNCHANGED clientVars

\* case t := <-ticker.C: delivered entries that expired before t are forgotten.
MainCleanup ==
    /\ mpc = "select"
    /\ sentEntries' = [k \in {x \in DOMAIN sentEntries : ~(now > sentEntries[x].Expiry)}
                         |-> sentEntries[k]]
    /\ sentEntries' # sentEntries
    /\ UNCHANGED <<params, now, mpc, entries, order, lastMsg, prevMsg, delivered,
                   prevDelivered, wireVars, taskVars, clientVars>>

\* Time passes while mainloop is blocked in its select.
ClockTick ==
    /\ mpc = "select"
    /\ now < MaxClockSteps * ClockStep
    /\ now' = now + ClockStep
    /\ UNCHANGED <<params, mpc, entries, order, sentEntries, lastMsg, prevMsg,
                   delivered, prevDelivered, wireVars, taskVars, clientVars>>

\* The datagrams peers send about instance I of the service: a lone PTR
\* (live or goodbye), a lone SRV, a lone TXT, the full set with an address
\* at every TTL with and without the cache-flush bit, the PTR and SRV
\* of I together with the PTR of a second instance J, and the datagrams
\* shared with J and with a second service type.
PeerTtls == {0, ClockStep, 2 * OneMinute}

PeerServiceName == ServiceName(newServiceEntry(Empty, SvcS, DomL))

PeerInstanceName(instance) == instance \o Dot \o PeerServiceName

PeerPtr(instance, t) == PTR(PeerServiceName, ClassINET, t, PeerInstanceName(instance))

PeerSrv(class, t) == SRV(PeerInstanceName(InstI), class, t, 8080, HostH)

PeerTxt(class, t) == TXT(PeerInstanceName(InstI), class, t, <<"a=1">>)

PeerA(class, t) == AddrRR("A", HostH, class, t, <<"10", 1>>)

\* Instance I of a second service type, on the same host.
OtherTypeName == InstI \o Dot \o ServiceName(newServiceEntry(Empty, SvcT, DomL))

OtherSrv(name) == SRV(name, ClassINET, 2 * OneMinute, 9090, HostH)

OtherTxt(name) == TXT(name, ClassINET, 2 * OneMinute, <<"b=2">>)

\* The datagrams that carry records of instance J or of the second service
\* type: alone, and around the records of I.
SharedRecordSets ==
    {<<PeerPtr(InstJ, 2 * OneMinute), OtherSrv(PeerInstanceName(InstJ)),
       OtherTxt(PeerInstanceName(InstJ)), PeerA(ClassINET, 2 * OneMinute)>>,
     <<PeerPtr(InstI, 2 * OneMinute), OtherSrv(PeerInstanceName(InstJ)),
       PeerSrv(ClassINET, 2 * OneMinute), PeerTxt(ClassINET, 2 * OneMinute),
       OtherTxt(PeerInstanceName(InstJ)), PeerA(ClassINET, 2 * OneMinute)>>,
     <<PeerPtr(InstI, 2 * OneMinute), PeerSrv(ClassINET, 2 * OneMinute),
       OtherSrv(OtherTypeName), PeerTxt(ClassINET, 2 * OneMinute),
       OtherTxt(OtherTypeName)>>}

\* A datagram whose address records come first: one of the host the SRV
\* names, one of a host no record names.
AddressFirstRecordSets ==
    {<<PeerA(ClassINET, 2 * OneMinute),
       AddrRR("A", HostG, ClassINET, 2 * OneMinute, <<"10", 2>>),
       PeerPtr(InstI, 2 * OneMinute), PeerSrv(ClassINET, 2 * OneMinute)>>}

RecordSets ==
    {<<PeerPtr(InstI, t)>> : t \in {0, 2 * OneMinute}}
    \cup AddressFirstRecordSets
    \cup {<<PeerSrv(ClassINET, 2 * OneMinute)>>,
          <<PeerTxt(ClassINET, 2 * OneMinute)>>,
          <<PeerPtr(InstI, 2 * OneMinute), PeerSrv(ClassINET, 2 * OneMinute),
            PeerPtr(InstJ, 2 * OneMinute)>>}
    \cup SharedRecordSets
    \cup {<<PeerPtr(InstI, t), PeerSrv(c, t), PeerTxt(c, t), PeerA(c, t)>> :
            t \in PeerTtls, c \in {ClassINET, ClassINET + qClassCacheFlush}}

Datagrams == {[NewMsg EXCEPT !.Response = TRUE, !.Answer = recs] : recs \in RecordSets}

ResolverNext ==
    \/ \E msg \in Datagrams : MainReceive(msg)
    \/ \E k \in order : MainVisit(k)
    \/ MainCleanup
    \/ ClockTick

\* Browse or Lookup has started mainloop.
InitResolver ==
    /\ params \in {newLookupParams(Empty, SvcS, DomL, TRUE),
                   newLookupParams(InstI, SvcS, DomL, FALSE)}
    /\ now = 0 /\ mpc = "select"
    /\ entries = <<>> /\ order = {} /\ sentEntries = <<>>
    /\ lastMsg = <<>> /\ prevMsg = <<>>
    /\ delivered = <<>> /\ prevDelivered = <<>>
    /\ InitClientIdle
    /\ service = Registered(SvcS, <<"a=1">>, <<>>, <<>>)
    /\ ttl = defaultTTL
    /\ conn = BothOpen
    /\ inbound = <<>> /\ sent = <<>>
    /\ InitTasksIdle

SpecResolver == InitResolver /\ [][ResolverNext]_vars

----------------------------------------------------------------------------
(* Properties of the resolver, checked under SpecResolver.                 *)

\* The SRV records of a datagram owned by name key, by position.
SrvAt(msg, key) ==
    {i \in 1..Len(Sections(msg)) :
        Sections(msg)[i].Rrtype = "SRV" /\ Sections(msg)[i].Name = key}

Max(S) == CHOOSE x \in S : \A y \in S : y <= x

DeliveredKeys(log) == {log[i].key : i \in 1..Len(log)}

\* C5 (as stated): every entry sent to the subscriber has its hostname and
\* port set from an SRV record of the datagram, so a datagram with only a
\* matching PTR or only a matching TXT yields no delivery.
C5_NoSrvNoDelivery ==
    \A d \in Range(delivered) :
        \E i \in SrvAt(lastMsg[1].msg, d.key) :
            /\ d.entry.HostName = Sections(lastMsg[1].msg)[i].Target
            /\ d.entry.Port = Sections(lastMsg[1].msg)[i].Port

\* C5 (amended): the hostname and port of every entry sent to the
\* subscriber are the target and port of the last SRV record the datagram
\* carries for the entry's instance name; when the datagram carries none
\* the entry is sent all the same, with an empty hostname and port 0.
C5_HostPortOnlyFromSrv ==
    \A d \in Range(delivered) :
        LET srvs == SrvAt(lastMsg[1].msg, d.key)
        IN  IF srvs = {}
            THEN d.entry.HostName = Empty /\ d.entry.Port = 0
            ELSE /\ d.entry.HostName = Sections(lastMsg[1].msg)[Max(srvs)].Target
                 /\ d.entry.Port = Sections(lastMsg[1].msg)[Max(srvs)].Port

\* C5 witness: one datagram has produced two deliveries, one for an
\* instance with an SRV record (hostname and port set) and one for an
\* instance with only a PTR record (hostname empty, port 0).
C5_Witness ==
    /\ mpc = "select"
    /\ \E d \in Range(delivered) :
          /\ SrvAt(lastMsg[1].msg, d.key) # {}
          /\ d.entry.HostName = HostH /\ d.entry.Port = 8080
    /\ \E d \in Range(delivered) :
          /\ SrvAt(lastMsg[1].msg, d.key) = {}
          /\ d.entry.HostName = Empty /\ d.entry.Port = 0

\* No record of the datagram carries the cache-flush bit.
FlushClear(msg) ==
    \A i \in 1..Len(Sections(msg)) : ~TopBit(Sections(msg)[i].Class)

\* C6 (as stated): when the same datagram, cache-flush clear, is processed
\* twice in a row at the same time, what the first processing delivered is
\* not delivered again by the second: the subscriber gets each entry once.
C6_SameDatagramOnce ==
    (/\ mpc = "select"
     /\ lastMsg # <<>> /\ prevMsg # <<>>
     /\ lastMsg[1] = prevMsg[1]
     /\ FlushClear(lastMsg[1].msg))
    => DeliveredKeys(prevDelivered) \cap DeliveredKeys(delivered) = {}

\* The entry mainloop fused for key k from datagram m was stale.
Stale(m, k) ==
    /\ k \in DOMAIN Fuse(params, m.msg, m.at)
    /\ Fuse(params, m.msg, m.at)[k].Expiry <= m.at

\* The entry mainloop fused for key k from datagram m was live.
Live(m, k) ==
    /\ k \in DOMAIN Fuse(params, m.msg, m.at)
    /\ Fuse(params, m.msg, m.at)[k].Expiry > m.at

PeerKeys == {PeerInstanceName(InstI), PeerInstanceName(InstJ)}

\* C7: no entry is delivered whose expiry is at or before the time its
\* datagram was processed; once the loop has passed such an entry its key
\* is in neither the delivery log of the datagram nor the delivered set;
\* and a live entry for the same key in the next datagram is delivered.
C7_ExpiredDroppedAndEvicted ==
    /\ \A d \in Range(delivered) : d.entry.Expiry > lastMsg[1].at
    /\ \A d \in Range(prevDelivered) : d.entry.Expiry > prevMsg[1].at
    /\ \A k \in PeerKeys \ order :
          (lastMsg # <<>> /\ Stale(lastMsg[1], k))
          => k \notin DOMAIN sentEntries /\ k \notin DeliveredKeys(delivered)
    /\ \A k \in PeerKeys \ order :
          (lastMsg # <<>> /\ prevMsg # <<>>
           /\ Stale(prevMsg[1], k) /\ Live(lastMsg[1], k))
          => k \in DeliveredKeys(delivered)

\* C7 witness: a goodbye for an instance was processed and dropped, and the
\* announcement that followed it, with a TTL under a minute, was delivered.
C7_Witness ==
    /\ mpc = "select"
    /\ lastMsg # <<>> /\ prevMsg # <<>>
    /\ \E k \in PeerKeys :
          /\ Stale(prevMsg[1], k)
          /\ k \notin DeliveredKeys(prevDelivered)
          /\ Live(lastMsg[1], k)
          /\ \E d \in Range(delivered) :
                d.key = k /\ d.entry.Expiry = lastMsg[1].at + ClockStep


\* The records of a datagram that are about the looked-up instance: the
\* PTRs pointing at it and the SRV and TXT records it owns, with every
\* other kind of record.
Foreign(rr) ==
    \/ rr.Rrtype = "PTR" /\ rr.Ptr # PeerInstanceName(params.Instance)
    \/ rr.Rrtype \in {"SRV", "TXT"} /\ rr.Name # PeerInstanceName(params.Instance)

Strip(msg) ==
    [msg EXCEPT !.Answer = SelectSeq(msg.Answer, LAMBDA rr : ~Foreign(rr)),
                !.Ns = SelectSeq(msg.Ns, LAMBDA rr : ~Foreign(rr)),
                !.Extra = SelectSeq(msg.Extra, LAMBDA rr : ~Foreign(rr))]

\* C19: under a Lookup of instance I, the entries built from a datagram are
\* keyed by I's service instance name only and are the entries the datagram
\* gives without its PTRs to other instances and its SRV and TXT records of
\* other owners; what is delivered is one of those entries.
C19_LookupOnlyItsInstance ==
    (params # <<>> /\ params.Instance # Empty /\ lastMsg # <<>>) =>
        LET own == PeerInstanceName(params.Instance)
            clean == Fuse(params, Strip(lastMsg[1].msg), lastMsg[1].at)
        IN  /\ Fuse(params, lastMsg[1].msg, lastMsg[1].at) = clean
            /\ DOMAIN entries \subseteq {own}
            /\ \A i \in 1..Len(delivered) :
                  /\ delivered[i].key = own
                  /\ delivered[i].entry = clean[own]

\* C19 witness: a Lookup took a datagram that carries I's records among an
\* SRV and a TXT of another owner, and delivered I's entry.
C19_Witness ==
    /\ params # <<>> /\ params.Instance # Empty /\ lastMsg # <<>>
    /\ \E i, j \in 1..Len(lastMsg[1].msg.Answer) :
          /\ lastMsg[1].msg.Answer[i].Rrtype = "SRV" /\ Foreign(lastMsg[1].msg.Answer[i])
          /\ lastMsg[1].msg.Answer[j].Rrtype = "TXT" /\ Foreign(lastMsg[1].msg.Answer[j])
    /\ Len(delivered) = 1
    /\ delivered[1].entry.Port = 8080

\* The addresses of the given type that a datagram carries for a host, in
\* message order.
AddrsFor(msg, type, host) ==
    LET recs == SelectSeq(Sections(msg),
                          LAMBDA rr : rr.Rrtype = type /\ rr.Name = host)
    IN  [i \in 1..Len(recs) |-> recs[i].Addr]

\* C22: every entry built from a datagram holds exactly the A and AAAA
\* addresses the datagram carries for the entry's host name, wherever they
\* stand in the message; an address of a host no entry names is in no entry.
C22_AddressesBindInAnyOrder ==
    lastMsg # <<>> =>
        \A k \in DOMAIN entries :
            /\ entries[k].AddrIPv4 = AddrsFor(lastMsg[1].msg, "A", entries[k].HostName)
            /\ entries[k].AddrIPv6 = AddrsFor(lastMsg[1].msg, "AAAA", entries[k].HostName)

\* C22 witness: the datagram in hand has an A record before the SRV that
\* names its host and an A record of another host; the entry holds the
\* first address only.
C22_Witness ==
    /\ lastMsg # <<>>
    /\ \E i, j, n \in 1..Len(lastMsg[1].msg.Answer) :
          /\ i < j
          /\ lastMsg[1].msg.Answer[i].Rrtype = "A"
          /\ lastMsg[1].msg.Answer[j].Rrtype = "SRV"
          /\ lastMsg[1].msg.Answer[j].Target = lastMsg[1].msg.Answer[i].Name
          /\ lastMsg[1].msg.Answer[n].Rrtype = "A"
          /\ lastMsg[1].msg.Answer[n].Name # lastMsg[1].msg.Answer[j].Target
    /\ \E k \in DOMAIN entries : entries[k].AddrIPv4 = <<PeerA(ClassINET, 0).Addr>>

\* The index of the record of the datagram in hand at which the entry of
\* key k is created by the first round.
CreatedAt(k) ==
    LET recs == Sections(lastMsg[1].msg)
        there(i) == k \in DOMAIN Pass1(params, <<>>, SubSeq(recs, 1, i), 1, lastMsg[1].at)
    IN  CHOOSE i \in 1..Len(recs) : there(i) /\ \A j \in 1..(i - 1) : ~there(j)

\* C23 (as stated): the entries of one datagram are delivered in the order
\* in which the scan of the datagram created them.
C23_DeliveredInFuseOrder ==
    lastMsg # <<>> =>
        \A a, b \in 1..Len(delivered) :
            a < b => CreatedAt(delivered[a].key) < CreatedAt(delivered[b].key)

----------------------------------------------------------------------------
(* SpecClient: the resolver's tasks.  newClient has returned and Browse or *)
(* Lookup calls client.run.  Positions: run "start" -> "query" -> "wait"   *)
(* -> "returned"; mainloop "none" -> "init" -> "select" <-> "deliver" ...  *)
(* "exited"; recv "none" -> "check" <-> "read" ... "done".                 *)

\* make(chan *dns.Msg, 32)
msgChCap == 32

\* go func() { defer close(done); c.mainloop(ctx, params) }()
RunSpawn ==
    /\ runpc = "start"
    /\ runpc' = "query"
    /\ mpc' = "init"
    /\ UNCHANGED <<params, now, entries, order, sentEntries, lastMsg, prevMsg,
                   delivered, prevDelivered, cconn, ctx, runErr, sink, crpc, msgCh,
                   arrivals, lateDeliveries, handed, wireVars, taskVars>>

\* err := c.query(params): on an error run cancels its context and returns
\* the error; sendQuery fails when the query does not pack.
RunQuery ==
    /\ runpc = "query"
    /\ \E packs \in BOOLEAN :
          IF packs
          THEN runpc' = "wait" /\ UNCHANGED <<ctx, runErr>>
          ELSE /\ runpc' = "returned"
               /\ runErr' = "pack"
               /\ ctx' = IF ctx = "live" THEN "stopped" ELSE ctx
    /\ UNCHANGED <<params, now, mpc, entries, order, sentEntries, lastMsg, prevMsg,
                   delivered, prevDelivered, cconn, sink, crpc, msgCh, arrivals,
                   lateDeliveries, handed, wireVars, taskVars>>

\* <-ctx.Done(); cancel(); return nil
RunWait ==
    /\ runpc = "wait"
    /\ ctx # "live"
    /\ runpc' = "returned"
    /\ runErr' = "nil"
    /\ UNCHANGED <<params, now, mpc, entries, order, sentEntries, lastMsg, prevMsg,
                   delivered, prevDelivered, cconn, ctx, sink, crpc, msgCh, arrivals,
                   lateDeliveries, handed, wireVars, taskVars>>

\* The caller of Browse / Lookup cancels the context it passed.
CallerCancel ==
    /\ ctx = "live"
    /\ runpc # "returned"
    /\ ctx' = "cancelled"
    /\ UNCHANGED <<params, now, mpc, entries, order, sentEntries, lastMsg, prevMsg,
                   delivered, prevDelivered, cconn, runpc, runErr, sink, crpc, msgCh,
                   arrivals, lateDeliveries, handed, wireVars, taskVars>>

\* mainloop's head: msgCh is made and recv is started on each socket.
MainInit ==
    /\ mpc = "init"
    /\ mpc' = "select"
    /\ crpc' = [f \in {4, 6} |-> IF cconn[f] # "nil" THEN "check" ELSE "none"]
    /\ UNCHANGED <<params, now, entries, order, sentEntries, lastMsg, prevMsg,
                   delivered, prevDelivered, cconn, ctx, runpc, runErr, sink, msgCh,
                   arrivals, lateDeliveries, handed, wireVars, taskVars>>

\* client.shutdown: the sockets the client holds are closed.
shutdown(c) == [f \in {4, 6} |-> IF c[f] # "nil" THEN "closed" ELSE c[f]]

\* case <-ctx.Done(): params.done(); c.shutdown(); return
MainStop ==
    /\ mpc = "select"
    /\ ctx # "live"
    /\ sink' = "closed"
    /\ cconn' = shutdown(cconn)
    /\ mpc' = "exited"
    /\ UNCHANGED <<params, now, entries, order, sentEntries, lastMsg, prevMsg,
                   delivered, prevDelivered, ctx, runpc, runErr, crpc, msgCh, arrivals,
                   lateDeliveries, handed, wireVars, taskVars>>

\* case msg := <-msgCh, taken from the channel's buffer.
MainTake ==
    /\ msgCh # <<>>
    /\ ReceiveMsg(Head(msgCh))
    /\ msgCh' = Tail(msgCh)
    /\ UNCHANGED <<cconn, ctx, runpc, runErr, sink, crpc, arrivals, lateDeliveries, handed>>

\* The iteration for key k reaches "params.Entries <- e".
Delivers(k) ==
    /\ ~Expired(entries[k], lastMsg[1].at)
    /\ ~(k \in DOMAIN sentEntries /\ SkipDelivered(entries[k], sentEntries[k]))

\* An iteration of the delivery loop that sends nothing.
MainPass(k) ==
    /\ k \in order
    /\ ~Delivers(k)
    /\ VisitEntry(k)
    /\ UNCHANGED clientVars

\* params.Entries <- e: the send completes when the subscriber receives.
MainDeliver(k) ==
    /\ k \in order
    /\ Delivers(k)
    /\ sink = "open"
    /\ VisitEntry(k)
    /\ lateDeliveries' = IF runpc = "returned" THEN lateDeliveries + 1
                         ELSE lateDeliveries
    /\ handed' = handed + 1
    /\ UNCHANGED <<cconn, ctx, runpc, runErr, sink, crpc, msgCh, arrivals>>

\* recv: if ctx.Err() != nil || fatalErr != nil { return }
RecvCheck(f) ==
    /\ crpc[f] = "check"
    /\ crpc' = [crpc EXCEPT ![f] = IF ctx # "live" THEN "done" ELSE "read"]
    /\ UNCHANGED <<params, now, mpc, entries, order, sentEntries, lastMsg, prevMsg,
                   delivered, prevDelivered, cconn, ctx, runpc, runErr, sink, msgCh,
                   arrivals, lateDeliveries, handed, wireVars, taskVars>>

\* A datagram msg.Unpack rejects.
Garbage == [Unpacks |-> FALSE]

\* The datagrams that reach the client's sockets.
Arriving ==
    {[NewMsg EXCEPT !.Response = TRUE, !.Answer = recs] :
        recs \in {<<PeerPtr(InstI, 2 * OneMinute), PeerSrv(ClassINET, 2 * OneMinute),
                    PeerPtr(InstJ, 2 * OneMinute)>>,
                  <<PeerPtr(InstI, ClockStep), PeerSrv(ClassINET, ClockStep)>>}}
      \cup {Garbage}

\* recv: readFrom returns a datagram; one that unpacks is sent to msgCh,
\* unless the select takes ctx.Done() and recv returns.
RecvRead(f, msg) ==
    /\ crpc[f] = "read"
    /\ cconn[f] = "open"
    /\ arrivals < MaxArrivals
    /\ arrivals' = arrivals + 1
    /\ \/ /\ msg # Garbage
          /\ Len(msgCh) < msgChCap
          /\ msgCh' = Append(msgCh, msg)
          /\ crpc' = [crpc EXCEPT ![f] = "check"]
       \/ /\ msg # Garbage
          /\ ctx # "live"
          /\ crpc' = [crpc EXCEPT ![f] = "done"]
          /\ UNCHANGED msgCh
       \/ /\ msg = Garbage
          /\ crpc' = [crpc EXCEPT ![f] = "check"]
          /\ UNCHANGED msgCh
    /\ UNCHANGED <<params, now, mpc, entries, order, sentEntries, lastMsg, prevMsg,
                   delivered, prevDelivered, cconn, ctx, runpc, runErr, sink,
                   lateDeliveries, handed, wireVars, taskVars>>

\* recv: readFrom fails on the closed socket; fatalErr ends the loop.
RecvFail(f) ==
    /\ crpc[f] = "read"
    /\ cconn[f] = "closed"
    /\ crpc' = [crpc EXCEPT ![f] = "done"]
    /\ UNCHANGED <<params, now, mpc, entries, order, sentEntries, lastMsg, prevMsg,
                   delivered, prevDelivered, cconn, ctx, runpc, runErr, sink, msgCh,
                   arrivals, lateDeliveries, handed, wireVars, taskVars>>

\* recv: readFrom fails on the open socket (a transient error, for example
\* an interrupted or refused read); fatalErr ends the loop all the same.
RecvFatal(f) ==
    /\ crpc[f] = "read"
    /\ cconn[f] = "open"
    /\ crpc' = [crpc EXCEPT ![f] = "done"]
    /\ UNCHANGED <<params, now, mpc, entries, order, sentEntries, lastMsg, prevMsg,
                   delivered, prevDelivered, cconn, ctx, runpc, runErr, sink, msgCh,
                   arrivals, lateDeliveries, handed, wireVars, taskVars>>

ClientNext ==
    \/ RunSpawn
    \/ RunQuery
    \/ RunWait
    \/ CallerCancel
    \/ MainInit
    \/ MainStop
    \/ MainTake
    \/ \E k \in order : MainPass(k)
    \/ \E k \in order : MainDeliver(k)
    \/ MainCleanup
    \/ ClockTick
    \/ \E f \in {4, 6} : RecvCheck(f)
    \/ \E f \in {4, 6}, msg \in Arriving : RecvRead(f, msg)
    \/ \E f \in {4, 6} : RecvFail(f)
    \/ \E f \in {4, 6} : RecvFatal(f)

\* Browse or Lookup calls cl.run on the client newClient returned.
InitClient ==
    /\ params \in {newLookupParams(Empty, SvcS, DomL, TRUE),
                   newLookupParams(InstI, SvcS, DomL, FALSE)}
    /\ now = 0 /\ mpc = "none"
    /\ entries = <<>> /\ order = {} /\ sentEntries = <<>>
    /\ lastMsg = <<>> /\ prevMsg = <<>>
    /\ delivered = <<>> /\ prevDelivered = <<>>
    /\ \E listenOn \in ListenOnArgs : cconn = newClient(listenOn, TRUE, TRUE).conn
    /\ ctx = "live" /\ runpc = "start" /\ runErr = "none"
    /\ sink = "open"
    /\ crpc = [f \in {4, 6} |-> "none"]
    /\ msgCh = <<>> /\ arrivals = 0 /\ lateDeliveries = 0 /\ handed = 0
    /\ service = Registered(SvcS, <<"a=1">>, <<>>, <<>>)
    /\ ttl = defaultTTL
    /\ conn = BothOpen
    /\ inbound = <<>> /\ sent = <<>>
    /\ InitTasksIdle

SpecClient == InitClient /\ [][ClientNext]_vars

\* Scheduling: every task that can step does; nothing makes the caller
\* cancel, a datagram arrive, the clock advance or the subscriber receive.
ClientFairness ==
    /\ WF_vars(RunSpawn) /\ WF_vars(RunQuery) /\ WF_vars(RunWait)
    /\ WF_vars(MainInit) /\ WF_vars(MainStop) /\ WF_vars(MainTake)
    /\ WF_vars(\E k \in order : MainPass(k))
    /\ WF_vars(MainCleanup)
    /\ \A f \in {4, 6} : WF_vars(RecvCheck(f)) /\ WF_vars(RecvFail(f))

FairSpecClient == SpecClient /\ ClientFairness

\* The same with a subscriber that receives whatever is sent to it.
FairSpecClientDrained ==
    FairSpecClient /\ WF_vars(\E k \in order : MainDeliver(k))

----------------------------------------------------------------------------
(* Properties of the resolver's tasks (SpecClient, FairSpecClient).        *)

SocketsClosed == \A f \in {4, 6} : cconn[f] # "open"

\* C13 (as stated): a run that returns after the caller cancelled returns
\* nil for Browse, and a cancellation error for a Lookup to which no entry
\* had been delivered.
C13_LookupReportsCancellation ==
    (runpc = "returned" /\ ctx = "cancelled" /\ runErr # "pack") =>
        IF params.isBrowsing THEN runErr = "nil"
        ELSE handed = 0 => runErr = "cancelled"

\* C14 (as stated): once the caller has cancelled, the sink is eventually
\* closed and no socket stays open.
C14_CancelClosesSinkAndSockets ==
    (ctx = "cancelled") ~> (sink = "closed" /\ SocketsClosed)

\* C15 (as stated): when run has returned after a cancellation, mainloop
\* has exited, the sink and the sockets are closed, and nothing has been
\* delivered since the return.
C15_ReturnedMeansJoined ==
    (runpc = "returned" /\ ctx = "cancelled" /\ runErr = "nil") =>
        /\ mpc = "exited"
        /\ sink = "closed"
        /\ SocketsClosed
        /\ lateDeliveries = 0

\* C26 (as stated): a receive task of the resolver ends only once
\* cancellation is signalled or its socket is closed; a failed read on an
\* open socket leaves it reading.
C26_ReceiveLoopSurvivesErrors ==
    \A f \in {4, 6} :
        crpc[f] = "done" => (ctx # "live" \/ cconn[f] # "open")

----------------------------------------------------------------------------
(* SpecChunks: utils.go chunks, applied once to a string and a chunk size.  *)
(* A Go string is a sequence of bytes; "L" is the lead byte and "C" the     *)
(* continuation byte of a two-byte UTF-8 character, "a" is a one-byte       *)
(* character.                                                               *)

\* Bytes of the longest string and the largest chunk size tried.
MaxStringLen == 4
MaxChunkSize == 3

Bytes == {"a", "L", "C"}

RECURSIVE StringsUpTo(_)
StringsUpTo(n) ==
    IF n = 0 THEN {<<>>}
    ELSE LET shorter == StringsUpTo(n - 1)
         IN  shorter \cup {Append(b, c) : b \in {x \in shorter : Len(x) = n - 1},
                                          c \in Bytes}

\* for i := range s: the bytes the character that starts at byte i takes;
\* a byte that starts no well-formed character is decoded as one character.
RuneWidth(s, i) ==
    IF s[i] = "L" /\ i < Len(s) /\ s[i + 1] = "C" THEN 2 ELSE 1

\* The loop of chunks; i and currentStart are the Go indexes plus one.
RECURSIVE ChunkLoop(_,_,_,_,_,_)
ChunkLoop(s, chunkSize, i, currentLen, currentStart, acc) ==
    IF i > Len(s)
    THEN Append(acc, SubSeq(s, currentStart, Len(s)))
    ELSE IF currentLen = chunkSize
         THEN ChunkLoop(s, chunkSize, i + RuneWidth(s, i), 1, i,
                        Append(acc, SubSeq(s, currentStart, i - 1)))
         ELSE ChunkLoop(s, chunkSize, i + RuneWidth(s, i), currentLen + 1,
                        currentStart, acc)

chunks(s, chunkSize) ==
    IF Len(s) = 0 THEN <<>>
    ELSE IF chunkSize >= Len(s) THEN <<s>>
    ELSE ChunkLoop(s, chunkSize, 1, 0, 1, <<>>)

CallChunks ==
    /\ ~result.done
    /\ result' = [done |-> TRUE, chunks |-> chunks(args.s, args.chunkSize)]
    /\ UNCHANGED <<wireVars, shouldShutdown, lockHolder, isShutdown, refCount,
                   conn, closeCalls, rpc, ppc, pi, timeout, probeLog, cpc,
                   goodbyes, lateSends, textCalls, spc, sockIf, args, resolverVars>>

ChunksNext == CallChunks

\* Every string of at most MaxStringLen bytes, well-formed or not, with
\* every chunk size from 1.
InitChunks ==
    /\ args \in [s : StringsUpTo(MaxStringLen), chunkSize : 1..MaxChunkSize]
    /\ result = [done |-> FALSE, chunks |-> <<>>]
    /\ service = <<>>
    /\ ttl = defaultTTL
    /\ conn = [f \in {4, 6} |-> "nil"]
    /\ inbound = <<>> /\ sent = <<>>
    /\ InitWorkersIdle
    /\ InitResolverIdle

SpecChunks == InitChunks /\ [][ChunksNext]_vars

RECURSIVE Concat(_)
Concat(parts) ==
    IF parts = <<>> THEN <<>> ELSE Head(parts) \o Concat(Tail(parts))

\* C29 (as stated): the pieces of chunks(s, n), n >= 1, joined in order are
\* s, each piece is non-empty and at most n bytes long, multi-byte
\* characters included; the empty string has no piece.
C29_ChunksWithinSize ==
    result.done =>
        /\ Concat(result.chunks) = args.s
        /\ \A k \in 1..Len(result.chunks) :
              /\ Len(result.chunks[k]) > 0
              /\ Len(result.chunks[k]) <= args.chunkSize
        /\ (args.s = <<>> => result.chunks = <<>>)

----------------------------------------------------------------------------
(* SpecSenders: the tasks that read the text and send on the IPv4 socket,  *)
(* step by step: a receive task answering a browse query, the probe task   *)
(* announcing on each interface, and a caller of SetText.  Server has one  *)
(* mutex, shutdownLock; none of these steps takes it.                      *)

Senders == {"recv4", "probe", "SetText"}

OldText == <<"a=1">>
NewText == <<"b=2", "c=3">>

\* s.service.Text = text is a store of a slice header (pointer, length,
\* capacity) that no lock orders with the reads: a read during the store
\* may see the new pointer with the old length, or the old pointer with the
\* new length (the strings past the old length are not the text's).
TornTexts(old, new) ==
    {SubSeq(new, 1, Len(old)),
     old \o [k \in 1..(Len(new) - Len(old)) |-> "?"]}

\* The ifIndex arguments of the multicastResponse calls a task makes: the
\* reply on the interface the query came from, one announcement for each
\* interface, the SetText announcement on all interfaces.
SendCalls(t) ==
    CASE t = "recv4" -> <<1>>
      [] t = "probe" -> Ifaces
      [] t = "SetText" -> <<0>>

\* multicastResponse: the interfaces it writes on, in order.
SendTargets(ifIndex) == IF ifIndex # 0 THEN <<ifIndex>> ELSE Ifaces

\* The message a task composes, from the text as it stands in memory.
Composed(t, ifIndex) ==
    CASE t = "recv4" ->
            handleQuestion(Server, Question(ServiceName(service), ClassINET),
                           NewReply(Query(<<Question(ServiceName(service), ClassINET)>>,
                                          <<>>, FALSE, <<>>)),
                           Query(<<Question(ServiceName(service), ClassINET)>>,
                                 <<>>, FALSE, <<>>),
                           ifIndex)
      [] t = "probe" -> Announcement(Server, ifIndex)
      [] t = "SetText" -> composeBrowsingAnswers(Server, NewResponse, 0)

SenderUnchanged ==
    UNCHANGED <<ttl, inbound, shouldShutdown, lockHolder, isShutdown, refCount, conn,
                closeCalls, rpc, ppc, pi, timeout, probeLog, cpc, goodbyes, lateSends,
                args, result, resolverVars>>

\* SetText: the store s.service.Text = text begins.
TextStoreBegin ==
    /\ spc["SetText"].pc = "idle"
    /\ \E torn \in TornTexts(service.Text, NewText) :
          service' = [service EXCEPT !.Text = torn]
    /\ textCalls' = Append(textCalls, [text |-> NewText, early |-> TRUE, mark |-> Len(sent)])
    /\ spc' = [spc EXCEPT !["SetText"].pc = "store"]
    /\ UNCHANGED <<sent, sockIf>>
    /\ SenderUnchanged

\* SetText: the store is complete; announceText() is next.
TextStoreEnd ==
    /\ spc["SetText"].pc = "store"
    /\ service' = [service EXCEPT !.Text = NewText]
    /\ spc' = [spc EXCEPT !["SetText"].pc = "compose"]
    /\ UNCHANGED <<sent, sockIf, textCalls>>
    /\ SenderUnchanged

\* A task composes its next message: s.service.TxtRecords() reads the text.
Compose(t) ==
    /\ spc[t].pc = "compose"
    /\ spc' = [spc EXCEPT ![t].pc = "select", ![t].k = 1,
                          ![t].msg = Composed(t, SendCalls(t)[spc[t].call])]
    /\ UNCHANGED <<service, sent, sockIf, textCalls>>
    /\ SenderUnchanged

\* The interface task t is about to write on.
SendTarget(t) == SendTargets(SendCalls(t)[spc[t].call])[spc[t].k]

\* multicastResponse: the outgoing interface is chosen, in the control
\* message of this write on darwin, ios and linux, on the socket by
\* SetMulticastInterface elsewhere.
SendSelect(t) ==
    /\ spc[t].pc = "select"
    /\ sockIf' = IF args.goos = "linux" THEN sockIf
                 ELSE [sockIf EXCEPT ![4] = SendTarget(t)]
    /\ spc' = [spc EXCEPT ![t].pc = "write"]
    /\ UNCHANGED <<service, sent, textCalls>>
    /\ SenderUnchanged

\* multicastResponse: s.ipv4conn.WriteTo(buf, &wcm, ipv4Addr); the packet
\* leaves on the control message's interface, or on the socket's.
SendWrite(t) ==
    /\ spc[t].pc = "write"
    /\ LET out == IF args.goos = "linux" THEN SendTarget(t) ELSE sockIf[4]
           more == spc[t].k < Len(SendTargets(SendCalls(t)[spc[t].call]))
           again == spc[t].call < Len(SendCalls(t))
       IN  /\ sent' = Append(sent, Packet("multicast", 4, out, Group(4), spc[t].msg))
           /\ spc' = [spc EXCEPT
                        ![t].stray = spc[t].stray \/ out # SendTarget(t),
                        ![t].msg = IF more THEN spc[t].msg ELSE <<>>,
                        ![t].k = IF more THEN spc[t].k + 1 ELSE 1,
                        ![t].call = IF ~more /\ again THEN spc[t].call + 1
                                    ELSE spc[t].call,
                        ![t].pc = IF more THEN "select"
                                  ELSE IF again THEN "compose" ELSE "done"]
    /\ UNCHANGED <<service, sockIf, textCalls>>
    /\ SenderUnchanged

SendersNext ==
    \/ TextStoreBegin
    \/ TextStoreEnd
    \/ \E t \in Senders : Compose(t)
    \/ \E t \in Senders : SendSelect(t)
    \/ \E t \in Senders : SendWrite(t)

\* A started responder on the IPv4 socket alone, on either kind of system,
\* with its workers about to compose and a caller about to call SetText.
InitSenders ==
    /\ service = Registered(SvcS, OldText, <<>>, <<>>)
    /\ ttl = defaultTTL
    /\ inbound = <<>> /\ sent = <<>>
    /\ conn = [f \in {4, 6} |-> IF f = 4 THEN "open" ELSE "nil"]
    /\ shouldShutdown = 0 /\ lockHolder = 0 /\ isShutdown = FALSE
    /\ refCount = 2
    /\ closeCalls = [f \in {4, 6} |-> 0]
    /\ rpc = [f \in {4, 6} |-> IF f = 4 THEN "read" ELSE "none"]
    /\ ppc = "announce" /\ pi = 0 /\ timeout = 0 /\ probeLog = <<>>
    /\ cpc = [c \in 1..NumCallers |-> "idle"]
    /\ goodbyes = 0 /\ lateSends = 0 /\ textCalls = <<>>
    /\ spc = [t \in Senders |->
                [pc |-> IF t = "SetText" THEN "idle" ELSE "compose",
                 call |-> 1, k |-> 1, msg |-> <<>>, stray |-> FALSE]]
    /\ sockIf = [f \in {4, 6} |-> 0]
    /\ args \in [goos : {"linux", "windows"}]
    /\ result = "ok"
    /\ InitResolverIdle

SpecSenders == InitSenders /\ [][SendersNext]_vars

\* The TXT strings of a packet.
TxtOf(p) ==
    {rr.Txt : rr \in {r \in Records(p.msg) : r.Rrtype = "TXT"}}

\* C24 (as stated): every message sent carries a snapshot of the text that
\* is entirely the old or entirely the new text, no read of a worker
\* falling inside the store of SetText.
C24_TextSnapshotWhole ==
    \A k \in 1..Len(sent) :
        /\ TxtOf(sent[k]) # {}
        /\ TxtOf(sent[k]) \subseteq {OldText, NewText}

\* C25 (as stated): at most one task is between selecting the outgoing
\* interface of the socket and the write that follows.
C25_SendsSerialized ==
    Cardinality({t \in Senders : spc[t].pc = "write"}) <= 1

\* What the interleaving costs where the interface is set on the socket:
\* every packet leaves on the interface its sender selected.
SentOnSelectedInterface == \A t \in Senders : ~spc[t].stray

====
